---- MODULE Spec2Model ----
(***************************************************************************)
(* Inventory Sync Core of ConradKurth/forecasting: the sync orchestrator   *)
(* (InventorySyncManager.TriggerShopifySync), the task queue (asynq) and   *)
(* the worker that runs InventorySyncManager.SyncInventory inside          *)
(* DB.WithTx.  Time is counted in minutes.                                 *)
(***************************************************************************)
EXTENDS Bags, FiniteSets, Integers, Sequences, TLC

\* ------------------------------------------------------------------------
\* Bounds of the model
\* ------------------------------------------------------------------------
NumShops == 2
NumCallers == 2
NumWorkers == 2
MaxRetry == 1
MaxTasks == 2
MaxTime == 30
TickStep == 15
MaxPlainLen == 2
NumNonces == 3
MaxDomainLen == 3
PageLimit == 2
MaxRecords == 4
MaxRequests == 4
\* the ids of one request for inventory items (100 in the code)
batchSize == 2
MaxVariants == 5

Shops == 1..NumShops
Callers == 1..NumCallers
Workers == 1..NumWorkers

\* ------------------------------------------------------------------------
\* Program constants
\* ------------------------------------------------------------------------
\* time.Since(LastSyncedAt) < 30*time.Minute
CooldownMinutes == 30

SyncStatusPending == "pending"
SyncStatusInProgress == "in_progress"
SyncStatusCompleted == "completed"
SyncStatusFailed == "failed"

EntityTypeFullSync == "full_sync"

\* ------------------------------------------------------------------------
\* Values: pgtype.Timestamp, pgtype.Text, wrapped errors
\* ------------------------------------------------------------------------
\* pgtype.Timestamp{} (the zero value, Valid = false) and a valid timestamp
NullTimestamp == [Valid |-> FALSE, Time |-> 0]
Timestamp(t) == [Valid |-> TRUE, Time |-> t]

\* pgtype.Text{} and pgtype.Text{String: s, Valid: true}; a string is the
\* sequence of its parts, "" is <<>>
NullText == [Valid |-> FALSE, String |-> <<>>]
Text(s) == [Valid |-> TRUE, String |-> s]

\* errors.Wrap(err, message): message + ": " + err.Error()
Wrap(err, message) == <<message>> \o err

\* the error of the queue client when the broker cannot take the task
QueueErrors == {<<"redis: connection refused">>}
\* Client.makeRequest: fmt.Errorf("shopify API error: status %d, body: %s")
\* wrapped by fetchAllShopifyData
FetchError == Wrap(<<"shopify API error: status 500">>, "failed to fetch products")
\* a failed upsert wrapped by batchInsertLocations and batchSyncAllData
WriteError == Wrap(Wrap(<<"db error">>, "failed to upsert location"), "failed to batch insert locations")
\* errors returned before the fetch phase (integration or credential missing)
SetupError == Wrap(<<"no shopify users found for store">>, "failed to get shopify user")
\* context.Canceled surfacing from the fetch phase on shutdown
CancelError == Wrap(<<"context canceled">>, "failed to fetch locations")
\* lines 171-196: what the validation reads of TriggerShopifySync find for a
\* request: everything, no user row, no shop row, no credential row, or a
\* credential whose token is empty
Validities == {"ok", "no_user", "no_shop", "no_credential", "empty_token"}
\* the error returned for a request of validity valid, <<>> for none
ValidationError(valid) ==
    CASE valid = "no_user" -> Wrap(<<"no rows in result set">>, "failed to get user")
      [] valid = "no_shop" -> Wrap(<<"no rows in result set">>, "shop not found")
      [] valid = "no_credential" -> Wrap(<<"no rows in result set">>, "failed to get access token")
      [] valid = "empty_token" -> <<"no access token found for user and shop">>
      [] OTHER -> <<>>
UniqueViolation == Wrap(<<"duplicate key value violates unique constraint">>, "failed to get/create integration")

\* manager.ToCoreStatus: unknown values map to pending
ToCoreStatus(managerStatus) ==
    IF managerStatus \in {SyncStatusPending, SyncStatusInProgress,
                          SyncStatusCompleted, SyncStatusFailed}
    THEN managerStatus ELSE SyncStatusPending

\* ------------------------------------------------------------------------
\* sync_states table and its queries
\* ------------------------------------------------------------------------
\* a row of sync_states (the id column is never read by the sync core and
\* is not replaced on conflict, so it is left out)
SyncStateRow(i, et, st, ts, msg) ==
    [integration_id |-> i, entity_type |-> et, sync_status |-> st,
     last_synced_at |-> ts, error_message |-> msg]

\* rows of (integration_id, entity_type); UNIQUE(integration_id, entity_type)
\* keeps them at most one
SyncStateRows(table, i, et) ==
    {r \in table : r.integration_id = i /\ r.entity_type = et}

\* pgx.ErrNoRows
ErrNoRows == <<"no rows in result set">>

\* GetSyncState :one -- (row, err); err is pgx.ErrNoRows when no row matches
GetSyncState(table, i, et) ==
    IF SyncStateRows(table, i, et) = {}
    THEN [err |-> ErrNoRows,
          row |-> SyncStateRow(i, et, SyncStatusPending, NullTimestamp, NullText)]
    ELSE [err |-> <<>>, row |-> CHOOSE r \in SyncStateRows(table, i, et) : TRUE]

\* UpsertSyncState: INSERT ... ON CONFLICT (integration_id, entity_type)
\* DO UPDATE SET last_synced_at, sync_status, error_message
UpsertSyncState(table, row) ==
    {r \in table : ~(r.integration_id = row.integration_id
                     /\ r.entity_type = row.entity_type)} \cup {row}

\* DB.WithTx: the committed table after fn ran with the writes tx staged and
\* returned err; commit exactly when err is nil, rollback otherwise
ApplyTx(table, tx) ==
    {r \in table : ~\E w \in tx : /\ w.integration_id = r.integration_id
                                  /\ w.entity_type = r.entity_type} \cup tx
WithTx(table, tx, err) == IF err = <<>> THEN ApplyTx(table, tx) ELSE table

\* updateSyncState stamping last_synced_at whatever the status
updateSyncState_AlwaysStamped(tx, i, entityType, status, errorMessage, t) ==
    LET errorMsg == IF errorMessage # <<>> THEN Text(errorMessage) ELSE NullText
    IN UpsertSyncState(tx,
          SyncStateRow(i, entityType, ToCoreStatus(status), Timestamp(t), errorMsg))

\* InventorySyncManager.updateSyncState: the rows staged in transaction tx
\* after the upsert issued at time t
updateSyncState(tx, i, entityType, status, errorMessage, t) ==
    LET errorMsg == IF errorMessage # <<>> THEN Text(errorMessage) ELSE NullText
        lastSyncedAt == IF status = SyncStatusCompleted
                        THEN Timestamp(t) ELSE NullTimestamp
    IN UpsertSyncState(tx,
          SyncStateRow(i, entityType, ToCoreStatus(status), lastSyncedAt, errorMsg))

\* shouldSkipSync without the in_progress branch
shouldSkipSync_NoInProgress(read, t) ==
    LET syncState == read.row
    IN IF read.err # <<>>
       THEN [skip |-> FALSE, reason |-> ""]
       ELSE IF /\ syncState.sync_status = SyncStatusCompleted
               /\ syncState.last_synced_at.Valid
               /\ t - syncState.last_synced_at.Time < CooldownMinutes
       THEN [skip |-> TRUE, reason |-> SyncStatusCompleted]
       ELSE [skip |-> FALSE, reason |-> ""]

\* shouldSkipSync with the cooldown comparison turned around
shouldSkipSync_CooldownInverted(read, t) ==
    LET syncState == read.row
    IN IF read.err # <<>>
       THEN [skip |-> FALSE, reason |-> ""]
       ELSE IF syncState.sync_status = SyncStatusInProgress
       THEN [skip |-> TRUE, reason |-> SyncStatusInProgress]
       ELSE IF /\ syncState.sync_status = SyncStatusCompleted
               /\ syncState.last_synced_at.Valid
               /\ t - syncState.last_synced_at.Time > CooldownMinutes
       THEN [skip |-> TRUE, reason |-> SyncStatusCompleted]
       ELSE [skip |-> FALSE, reason |-> ""]

\* InventorySyncManager.shouldSkipSync: (shouldSkip, skipReason) for the
\* outcome read of GetSyncState, evaluated at time t
shouldSkipSync(read, t) ==
    LET syncState == read.row
    IN IF read.err # <<>>
       THEN [skip |-> FALSE, reason |-> ""]
       ELSE IF syncState.sync_status = SyncStatusInProgress
       THEN [skip |-> TRUE, reason |-> SyncStatusInProgress]
       ELSE IF /\ syncState.sync_status = SyncStatusCompleted
               /\ syncState.last_synced_at.Valid
               /\ t - syncState.last_synced_at.Time < CooldownMinutes
       THEN [skip |-> TRUE, reason |-> SyncStatusCompleted]
       ELSE [skip |-> FALSE, reason |-> ""]

\* ------------------------------------------------------------------------
\* Entity tables and their upserts
\* ------------------------------------------------------------------------
\* strconv.FormatInt(n, 10) for n >= 0: the decimal digits of n
RECURSIVE FormatInt(_)
FormatInt(n) == IF n < 10 THEN <<n>> ELSE FormatInt(n \div 10) \o <<n % 10>>

\* Resource.Prefix() of the typed ids (pkg/id/prefix.go)
Prefix(T) ==
    CASE T = "User" -> <<"u", "s", "r", "_">>
      [] T = "Product" -> <<"p", "r", "d", "_">>
      [] T = "ProductVariant" -> <<"v", "a", "r", "_">>
      [] T = "InventoryItem" -> <<"i", "n", "v", "_">>
      [] T = "Location" -> <<"l", "o", "c", "_">>
      [] T = "PlatformIntegration" -> <<"i", "n", "t", "_">>
      [] T = "SyncState" -> <<"s", "y", "c", "_">>

\* strings.HasPrefix
HasPrefix(str, prefix) ==
    Len(str) >= Len(prefix) /\ SubSeq(str, 1, Len(prefix)) = prefix

\* id.NewGeneration[T](): T's prefix and a fresh xid. The generator draws
\* random xids; here the xid is a series and a number, each run's k-th id of
\* a table the k-th number of the run's own series that no row of the table
\* carries, so that the ids of one shop's rows do not depend on which shop
\* was synced first
NthFree(used, k) ==
    CHOOSE n \in 1..(Cardinality(used) + k) :
        n \notin used /\ Cardinality({x \in 1..n : x \notin used}) = k
Xid(id) == SubSeq(id, 5, Len(id))
NewGeneration(prefix, series, table, k) ==
    prefix \o <<series,
                NthFree({Xid(r.id)[2] : r \in {x \in table : /\ HasPrefix(x.id, prefix)
                                                             /\ Xid(x.id)[1] = series}}, k)>>

\* the tables of the core schema the pipeline writes, none with a row
EmptyTables == [locations |-> {}, products |-> {}, product_variants |-> {},
                inventory_items |-> {}]

\* UNIQUE and PRIMARY KEY constraints of each table once every migration
\* has run
UniqueConstraints ==
    [locations |-> {{"id"}, {"external_id"}},
     products |-> {{"id"}, {"integration_id", "handle"}},
     product_variants |-> {{"id"}, {"external_id"}},
     inventory_items |-> {{"id"}, {"external_id"}}]

\* SQLSTATE 42P10, 23505 and 23503
NoMatchingConstraint ==
    <<"there is no unique or exclusion constraint matching the ON CONFLICT specification">>
DuplicateKey == <<"duplicate key value violates unique constraint">>
ForeignKeyViolation == <<"insert or update violates foreign key constraint">>

\* rows of table that agree with row on every column of key
Matching(table, row, key) == {r \in table : \A f \in key : r[f] = row[f]}

\* an upsert whose DO UPDATE also overwrites the id of the existing row
Upsert_ReplaceID(table, row, target, set, unique, fk) ==
    IF target \notin unique
    THEN [table |-> table, err |-> NoMatchingConstraint]
    ELSE IF Matching(table, row, target) # {}
    THEN LET old == CHOOSE r \in Matching(table, row, target) : TRUE
             new == [f \in DOMAIN old |-> IF f \in set \cup {"id"} THEN row[f] ELSE old[f]]
         IN IF \E u \in unique : Matching(table \ {old}, new, u) # {}
            THEN [table |-> table, err |-> DuplicateKey]
            ELSE [table |-> (table \ {old}) \cup {new}, err |-> <<>>]
    ELSE IF \E u \in unique : Matching(table, row, u) # {}
    THEN [table |-> table, err |-> DuplicateKey]
    ELSE IF ~fk
    THEN [table |-> table, err |-> ForeignKeyViolation]
    ELSE [table |-> table \cup {row}, err |-> <<>>]

\* INSERT ... ON CONFLICT (target) DO UPDATE SET set = EXCLUDED.set on a
\* table with constraints unique; fk: the row's references resolve.
\* (table after the statement, error of the statement)
Upsert(table, row, target, set, unique, fk) ==
    IF target \notin unique
    THEN [table |-> table, err |-> NoMatchingConstraint]
    ELSE IF Matching(table, row, target) # {}
    THEN LET old == CHOOSE r \in Matching(table, row, target) : TRUE
             new == [f \in DOMAIN old |-> IF f \in set THEN row[f] ELSE old[f]]
         IN IF \E u \in unique : Matching(table \ {old}, new, u) # {}
            THEN [table |-> table, err |-> DuplicateKey]
            ELSE [table |-> (table \ {old}) \cup {new}, err |-> <<>>]
    ELSE IF \E u \in unique : Matching(table, row, u) # {}
    THEN [table |-> table, err |-> DuplicateKey]
    ELSE IF ~fk
    THEN [table |-> table, err |-> ForeignKeyViolation]
    ELSE [table |-> table \cup {row}, err |-> <<>>]

\* UpsertLocation: ON CONFLICT (integration_id, external_id); the columns
\* it updates (name, address, ...) are not modelled
UpsertLocation(db, row) ==
    Upsert(db.locations, row, {"integration_id", "external_id"}, {},
           UniqueConstraints.locations, TRUE)

\* UpsertProduct: ON CONFLICT (integration_id, handle) DO UPDATE SET
\* external_id, title, ...; the id of the existing row stays
UpsertProduct(db, row) ==
    Upsert(db.products, row, {"integration_id", "handle"}, {"external_id", "title"},
           UniqueConstraints.products, TRUE)

\* UpsertProductVariant with product_id not checked against products
UpsertProductVariant_NoForeignKey(db, row) ==
    Upsert(db.product_variants, row, {"external_id"}, {"sku", "inventory_item_id"},
           UniqueConstraints.product_variants, TRUE)

\* UpsertProductVariant: ON CONFLICT (external_id) DO UPDATE SET sku, price,
\* inventory_item_id; product_id REFERENCES products(id)
UpsertProductVariant(db, row) ==
    Upsert(db.product_variants, row, {"external_id"}, {"sku", "inventory_item_id"},
           UniqueConstraints.product_variants,
           \E p \in db.products : p.id = row.product_id)

\* UpsertInventoryItem: ON CONFLICT (integration_id, external_id)
UpsertInventoryItem(db, row) ==
    Upsert(db.inventory_items, row, {"integration_id", "external_id"}, {"sku"},
           UniqueConstraints.inventory_items, TRUE)

RECURSIVE Flatten(_)
Flatten(ss) == IF ss = <<>> THEN <<>> ELSE Head(ss) \o Flatten(Tail(ss))

\* the elements of sequence q in first-seen order, each once
RECURSIVE FirstSeen(_, _)
FirstSeen(q, seen) ==
    IF q = <<>> THEN <<>>
    ELSE IF Head(q) \in seen THEN FirstSeen(Tail(q), seen)
    ELSE <<Head(q)>> \o FirstSeen(Tail(q), seen \cup {Head(q)})

\* pgtype.Text{String: s, Valid: s != ""}
TextOrNull(str) == IF str # <<>> THEN Text(str) ELSE NullText

\* normalizeShopifyData: the rows to write for the locations and products
\* the API returned (catalogue), with a fresh id for every row; the
\* inventory items are those GetInventoryItems returns for the non-zero
\* inventory_item_id of the variants
normalizeShopifyData(integrationID, catalogue, db) ==
    LET Locations ==
            [k \in 1..Len(catalogue.Locations) |->
                [id |-> NewGeneration(Prefix("Location"), integrationID, db.locations, k),
                 integration_id |-> integrationID,
                 external_id |-> FormatInt(catalogue.Locations[k].ID)]]
        Products ==
            [k \in 1..Len(catalogue.Products) |->
                [id |-> NewGeneration(Prefix("Product"), integrationID, db.products, k),
                 integration_id |-> integrationID,
                 external_id |-> FormatInt(catalogue.Products[k].ID),
                 title |-> catalogue.Products[k].Title,
                 handle |-> catalogue.Products[k].Handle]]
        variants ==
            Flatten([k \in 1..Len(catalogue.Products) |->
                [j \in 1..Len(catalogue.Products[k].Variants) |->
                    [productID |-> Products[k].id,
                     variant |-> catalogue.Products[k].Variants[j]]]])
        ProductVariants ==
            [k \in 1..Len(variants) |->
                [id |-> NewGeneration(Prefix("ProductVariant"), integrationID, db.product_variants, k),
                 product_id |-> variants[k].productID,
                 external_id |-> FormatInt(variants[k].variant.ID),
                 sku |-> TextOrNull(variants[k].variant.SKU),
                 inventory_item_id |->
                    IF variants[k].variant.InventoryItemID # 0
                    THEN Text(FormatInt(variants[k].variant.InventoryItemID))
                    ELSE NullText]]
        inventoryItemIDList ==
            FirstSeen(SelectSeq([k \in 1..Len(variants) |->
                                    variants[k].variant.InventoryItemID],
                                LAMBDA n : n # 0), {})
        InventoryItems ==
            [k \in 1..Len(inventoryItemIDList) |->
                [id |-> NewGeneration(Prefix("InventoryItem"), integrationID, db.inventory_items, k),
                 integration_id |-> integrationID,
                 external_id |-> FormatInt(inventoryItemIDList[k]),
                 sku |-> NullText]]
    IN [Locations |-> Locations, Products |-> Products,
        ProductVariants |-> ProductVariants, InventoryItems |-> InventoryItems]

\* the upserts of batchSyncAllData with the variants before their products
Statements_VariantsFirst(syncData) ==
    [k \in 1..Len(syncData.Locations) |->
        [table |-> "locations", row |-> syncData.Locations[k],
         message |-> "failed to batch insert locations"]]
    \o [k \in 1..Len(syncData.ProductVariants) |->
        [table |-> "product_variants", row |-> syncData.ProductVariants[k],
         message |-> "failed to batch insert product variants"]]
    \o [k \in 1..Len(syncData.Products) |->
        [table |-> "products", row |-> syncData.Products[k],
         message |-> "failed to batch insert products"]]
    \o [k \in 1..Len(syncData.InventoryItems) |->
        [table |-> "inventory_items", row |-> syncData.InventoryItems[k],
         message |-> "failed to batch insert inventory items"]]

\* the upserts of batchSyncAllData in the order it issues them
Statements(syncData) ==
    [k \in 1..Len(syncData.Locations) |->
        [table |-> "locations", row |-> syncData.Locations[k],
         message |-> "failed to batch insert locations"]]
    \o [k \in 1..Len(syncData.Products) |->
        [table |-> "products", row |-> syncData.Products[k],
         message |-> "failed to batch insert products"]]
    \o [k \in 1..Len(syncData.ProductVariants) |->
        [table |-> "product_variants", row |-> syncData.ProductVariants[k],
         message |-> "failed to batch insert product variants"]]
    \o [k \in 1..Len(syncData.InventoryItems) |->
        [table |-> "inventory_items", row |-> syncData.InventoryItems[k],
         message |-> "failed to batch insert inventory items"]]

\* one upsert of the write phase against the tables staged so far
Execute(db, statement) ==
    CASE statement.table = "locations" -> UpsertLocation(db, statement.row)
      [] statement.table = "products" -> UpsertProduct(db, statement.row)
      [] statement.table = "product_variants" -> UpsertProductVariant(db, statement.row)
      [] statement.table = "inventory_items" -> UpsertInventoryItem(db, statement.row)

\* batchSyncAllData from statement k on: every upsert in turn, stopping at
\* the first error; fault is the number of the statement the database
\* fails for a reason of its own (0: none).  (tables staged, error)
RECURSIVE batchSyncFrom(_, _, _, _)
batchSyncFrom(db, statements, k, fault) ==
    IF k > Len(statements)
    THEN [db |-> db, err |-> <<>>]
    ELSE LET statement == statements[k]
             result == IF k = fault
                       THEN [table |-> db[statement.table], err |-> <<"db error">>]
                       ELSE Execute(db, statement)
         IN IF result.err # <<>>
            THEN [db |-> db,
                  err |-> Wrap(Wrap(result.err, "failed to upsert"), statement.message)]
            ELSE batchSyncFrom([db EXCEPT ![statement.table] = result.table],
                               statements, k + 1, fault)

batchSyncAllData(db, syncData, fault) ==
    batchSyncFrom(db, Statements(syncData), 1, fault)

\* ------------------------------------------------------------------------
\* EncryptedSecret (internal/crypto)
\* ------------------------------------------------------------------------
\* a plaintext is a sequence of bytes, an envelope a sequence of characters
EncryptionVersion == <<"v", "1">>

\* sha256 of the configured secret key, one byte of it
encryptionKey == 77

\* aesGCM.NonceSize() and the size of the GCM tag, in bytes
NonceSize == 1
TagSize == 1

RECURSIVE SumSeq(_)
SumSeq(bytes) == IF bytes = <<>> THEN 0 ELSE Head(bytes) + SumSeq(Tail(bytes))

\* the GCM tag of the encrypted bytes under the key and the nonce
Tag(nonce, sealed) == <<(SumSeq(sealed) + 3 * SumSeq(nonce) + encryptionKey) % 256>>

\* aesGCM.Seal(nil, nonce, plaintext, nil): the bytes encrypted under the
\* key and the nonce, then the tag
Seal(nonce, plaintext) ==
    LET sealed == [k \in 1..Len(plaintext) |->
                      (plaintext[k] + encryptionKey + SumSeq(nonce) + k) % 256]
    IN sealed \o Tag(nonce, sealed)

\* aesGCM.Open(nil, nonce, data, nil): (plaintext, err)
Open(nonce, data) ==
    IF Len(data) < TagSize
    THEN [value |-> <<>>, err |-> <<"cipher: message authentication failed">>]
    ELSE LET sealed == SubSeq(data, 1, Len(data) - TagSize)
             tag == SubSeq(data, Len(data) - TagSize + 1, Len(data))
         IN IF tag # Tag(nonce, sealed)
            THEN [value |-> <<>>, err |-> <<"cipher: message authentication failed">>]
            ELSE [value |-> [k \in 1..Len(sealed) |->
                                (sealed[k] + 512 - encryptionKey - SumSeq(nonce) - k) % 256],
                  err |-> <<>>]

\* base64.StdEncoding
Base64Alphabet ==
    <<"A", "B", "C", "D", "E", "F", "G", "H", "I", "J", "K", "L", "M", "N", "O", "P",
      "Q", "R", "S", "T", "U", "V", "W", "X", "Y", "Z", "a", "b", "c", "d", "e", "f",
      "g", "h", "i", "j", "k", "l", "m", "n", "o", "p", "q", "r", "s", "t", "u", "v",
      "w", "x", "y", "z", "0", "1", "2", "3", "4", "5", "6", "7", "8", "9", "+", "/">>
Base64Pad == "="

RECURSIVE EncodeToString(_)
EncodeToString(data) ==
    LET char(n) == Base64Alphabet[n + 1]
    IN IF Len(data) = 0 THEN <<>>
       ELSE IF Len(data) = 1
       THEN <<char(data[1] \div 4), char((data[1] % 4) * 16), Base64Pad, Base64Pad>>
       ELSE IF Len(data) = 2
       THEN <<char(data[1] \div 4), char((data[1] % 4) * 16 + data[2] \div 16),
              char((data[2] % 16) * 4), Base64Pad>>
       ELSE <<char(data[1] \div 4), char((data[1] % 4) * 16 + data[2] \div 16),
              char((data[2] % 16) * 4 + data[3] \div 64), char(data[3] % 64)>>
            \o EncodeToString(SubSeq(data, 4, Len(data)))

\* base64.StdEncoding.DecodeString: (data, err)
RECURSIVE DecodeString(_)
DecodeString(str) ==
    LET IsChar(c) == \E n \in 1..64 : Base64Alphabet[n] = c
        value(c) == (CHOOSE n \in 1..64 : Base64Alphabet[n] = c) - 1
        corrupt == [value |-> <<>>, err |-> <<"illegal base64 data">>]
    IN IF str = <<>> THEN [value |-> <<>>, err |-> <<>>]
       ELSE IF Len(str) < 4 \/ ~IsChar(str[1]) \/ ~IsChar(str[2]) THEN corrupt
       ELSE IF str[3] = Base64Pad
       THEN IF Len(str) = 4 /\ str[4] = Base64Pad
            THEN [value |-> <<value(str[1]) * 4 + value(str[2]) \div 16>>, err |-> <<>>]
            ELSE corrupt
       ELSE IF ~IsChar(str[3]) THEN corrupt
       ELSE IF str[4] = Base64Pad
       THEN IF Len(str) = 4
            THEN [value |-> <<value(str[1]) * 4 + value(str[2]) \div 16,
                              (value(str[2]) % 16) * 16 + value(str[3]) \div 4>>,
                  err |-> <<>>]
            ELSE corrupt
       ELSE IF ~IsChar(str[4]) THEN corrupt
       ELSE LET rest == DecodeString(SubSeq(str, 5, Len(str)))
            IN IF rest.err # <<>> THEN corrupt
               ELSE [value |-> <<value(str[1]) * 4 + value(str[2]) \div 16,
                                 (value(str[2]) % 16) * 16 + value(str[3]) \div 4,
                                 (value(str[3]) % 4) * 64 + value(str[4])>> \o rest.value,
                     err |-> <<>>]

\* encrypt (lines 74-96) with the nonce rand.Reader gave:
\* base64(nonce || sealed || tag)
encrypt(plaintext, nonce) ==
    IF plaintext = <<>>
    THEN [value |-> <<>>, err |-> <<>>]
    ELSE [value |-> EncodeToString(nonce \o Seal(nonce, plaintext)), err |-> <<>>]

\* the envelope without its version
encryptWithVersion_NoVersion(plaintext, nonce) ==
    IF plaintext = <<>>
    THEN [value |-> <<>>, err |-> <<>>]
    ELSE encrypt(plaintext, nonce)

\* encryptWithVersion (lines 98-109): "v1:" before the encrypted text
encryptWithVersion(plaintext, nonce) ==
    IF plaintext = <<>>
    THEN [value |-> <<>>, err |-> <<>>]
    ELSE LET encrypted == encrypt(plaintext, nonce)
         IN IF encrypted.err # <<>>
            THEN [value |-> <<>>, err |-> encrypted.err]
            ELSE [value |-> EncryptionVersion \o <<":">> \o encrypted.value, err |-> <<>>]

\* decrypt (lines 129-160): (plaintext, err)
decrypt(ciphertext) ==
    IF ciphertext = <<>>
    THEN [value |-> <<>>, err |-> <<>>]
    ELSE LET data == DecodeString(ciphertext)
         IN IF data.err # <<>>
            THEN [value |-> <<>>, err |-> data.err]
            ELSE IF Len(data.value) < NonceSize
            THEN [value |-> <<>>, err |-> <<"ciphertext too short">>]
            ELSE Open(SubSeq(data.value, 1, NonceSize),
                      SubSeq(data.value, NonceSize + 1, Len(data.value)))

\* strings.Cut(s, sep) for a separator of one character
Cut(s, sep) ==
    IF \E k \in 1..Len(s) : s[k] = sep
    THEN LET k == CHOOSE n \in 1..Len(s) : s[n] = sep /\ \A j \in 1..(n - 1) : s[j] # sep
         IN [before |-> SubSeq(s, 1, k - 1), after |-> SubSeq(s, k + 1, Len(s)),
             found |-> TRUE]
    ELSE [before |-> s, after |-> <<>>, found |-> FALSE]

\* decryptWithVersion decrypting under whatever version
decryptWithVersion_AnyVersion(encrypted) ==
    IF encrypted = <<>>
    THEN [value |-> <<>>, err |-> <<>>]
    ELSE LET cut == Cut(encrypted, ":")
         IN IF ~cut.found
            THEN [value |-> <<>>, err |-> <<"invalid secret format">>]
            ELSE decrypt(cut.after)

\* decryptWithVersion (lines 111-127)
decryptWithVersion(encrypted) ==
    IF encrypted = <<>>
    THEN [value |-> <<>>, err |-> <<>>]
    ELSE LET cut == Cut(encrypted, ":")
         IN IF ~cut.found
            THEN [value |-> <<>>, err |-> <<"invalid secret format">>]
            ELSE IF cut.before = <<>> \/ cut.before = EncryptionVersion
            THEN decrypt(cut.after)
            ELSE [value |-> <<>>,
                  err |-> <<"unsupported encryption version: ">> \o cut.before]

\* EncryptedSecret.Value (lines 29-35): the column value of secret s
Value(s, nonce) ==
    IF s = <<>> THEN [value |-> <<>>, err |-> <<>>] ELSE encryptWithVersion(s, nonce)

\* EncryptedSecret.Scan (lines 41-68) of a string column: (secret, err)
Scan(value) ==
    IF value = <<>>
    THEN [value |-> <<>>, err |-> <<>>]
    ELSE decryptWithVersion(value)

\* ------------------------------------------------------------------------
\* State
\* ------------------------------------------------------------------------
VARIABLES
    now,                    \* wall clock, minutes
    platform_integrations,  \* shops that have a platform_integrations row
    sync_states,            \* committed rows of sync_states
    queue,                  \* bag of pending and retry-scheduled tasks
    calls,                  \* TriggerShopifySync calls, one per caller
    workers,                \* task handlers, one per worker goroutine
    shopify,                \* what the Shopify API returns for each shop
    locations,              \* committed rows of locations
    products,               \* committed rows of products
    product_variants,       \* committed rows of product_variants
    inventory_items,        \* committed rows of inventory_items
    shopify_users           \* an access token: the secret held, the
                            \* access_token column, the secret scanned back

tables == <<locations, products, product_variants, inventory_items>>
vars == <<now, platform_integrations, sync_states, queue, calls, workers,
          shopify, tables, shopify_users>>

\* the committed entity tables as one value
Committed == [locations |-> locations, products |-> products,
              product_variants |-> product_variants,
              inventory_items |-> inventory_items]

\* no secret held, none stored, none scanned
NoSecret == [pc |-> "new", secret |-> <<>>, access_token |-> <<>>, scanned |-> <<>>,
             err |-> <<>>]

\* a shop with no location and no product
EmptyCatalogue == [Locations |-> <<>>, Products |-> <<>>]

\* what GetLocations and GetProducts may return for shop s; the ids Shopify
\* assigns are unique across shops
Variant(s, n, sku, item) ==
    [ID |-> 10 * s + n, SKU |-> sku, InventoryItemID |-> IF item THEN 10 * s + 9 ELSE 0]
Product(s, handle, title, variants) ==
    [ID |-> 10 * s + 1, Handle |-> handle, Title |-> title, Variants |-> variants]
\* the first shop's catalogue is edited in every way, the others only open
Catalogues(s) ==
    {EmptyCatalogue,
     \* one product with one variant
     [Locations |-> <<>>,
      Products |-> <<Product(s, "a", "t", <<Variant(s, 5, <<"sku">>, FALSE)>>)>>]}
    \cup IF s # 1 THEN {} ELSE {
     \* the product has a second variant
     [Locations |-> <<>>,
      Products |-> <<Product(s, "a", "t", <<Variant(s, 5, <<"sku">>, FALSE),
                                            Variant(s, 6, <<>>, FALSE)>>)>>],
     \* the product has another title, its variant no sku
     [Locations |-> <<>>,
      Products |-> <<Product(s, "a", "u", <<Variant(s, 5, <<>>, FALSE)>>)>>],
     \* the product has another handle
     [Locations |-> <<>>,
      Products |-> <<Product(s, "b", "t", <<Variant(s, 5, <<"sku">>, FALSE)>>)>>],
     \* the variant is tracked as an inventory item
     [Locations |-> <<>>,
      Products |-> <<Product(s, "a", "t", <<Variant(s, 5, <<"sku">>, TRUE)>>)>>],
     \* the shop has a location
     [Locations |-> <<[ID |-> 10 * s + 7]>>,
      Products |-> <<Product(s, "a", "t", <<Variant(s, 5, <<"sku">>, FALSE)>>)>>]}

\* SyncResult / error of a TriggerShopifySync call
NoResult == [Status |-> "", err |-> <<>>]
\* a call: its position, its request, the local shouldSkip and what it
\* returned
IdleCall == [pc |-> "idle", ShopDomain |-> 0, Force |-> FALSE,
             shouldSkip |-> FALSE, result |-> NoResult]
\* a handler: its position, the task it runs, the sync-state rows staged in
\* its transaction, the time.Now() read for the completed state and the
\* record loggingMiddleware wrote when the task arrived
IdleWorker == [pc |-> "idle", IntegrationID |-> 0, retried |-> 0, tx |-> {},
               lastSyncedAt |-> NullTimestamp, logged |-> <<>>]

\* shopifyUser.AccessToken.String() (line 191): the decrypted access token
\* of the shop
AccessTokenOf(s) == <<"shpat_", ToString(s)>>

\* NewShopifyInventorySyncTask: json.Marshal of the payload, the text of
\* its three fields
NewShopifyInventorySyncTask(integrationID, shopDomain, accessToken) ==
    <<"{integration_id:">> \o integrationID \o <<",shop_domain:">> \o shopDomain
        \o <<",access_token:">> \o accessToken \o <<"}">>

\* a sync.full task as line 226 enqueues it: the integration, the payload
\* built from the integration, the shop and its access token, and how often
\* the task was retried
Task(i, n) ==
    [IntegrationID |-> i, retried |-> n,
     Payload |-> NewShopifyInventorySyncTask(<<"int_", ToString(i)>>,
                                             <<"shop", ToString(i), ".myshopify.com">>,
                                             AccessTokenOf(i))]

\* loggingMiddleware: the record logged before the handler runs
loggingMiddleware(t) ==
    <<"Started processing task", " type=", "shopify:inventory_sync", " payload=">>
        \o t.Payload

\* committed full_sync row(s) of integration i
FullSync(i) == SyncStateRows(sync_states, i, EntityTypeFullSync)
FullSyncStatus(i) ==
    IF FullSync(i) = {} THEN "no_row" ELSE (CHOOSE r \in FullSync(i) : TRUE).sync_status

\* tasks of integration i waiting in the queue, and how many
Queued(i) == {t \in BagToSet(queue) : t.IntegrationID = i}
QueuedCount(i) ==
    LET Sum[S \in SUBSET Queued(i)] ==
            IF S = {} THEN 0
            ELSE LET t == CHOOSE x \in S : TRUE
                 IN CopiesIn(t, queue) + Sum[S \ {t}]
    IN Sum[Queued(i)]
\* workers executing the pipeline of integration i
Running(i) == {w \in Workers : workers[w].pc # "idle" /\ workers[w].IntegrationID = i}
\* calls in flight (a call that has returned stays until its response is
\* taken)
InFlight == {c \in Callers : calls[c].pc # "idle"}

Init ==
    /\ now = 0
    /\ platform_integrations = {}
    /\ sync_states = {}
    /\ queue = EmptyBag
    /\ calls = [c \in Callers |-> IdleCall]
    /\ workers = [w \in Workers |-> IdleWorker]
    /\ shopify = [s \in Shops |-> EmptyCatalogue]
    /\ locations = {}
    /\ products = {}
    /\ product_variants = {}
    /\ inventory_items = {}
    /\ shopify_users = NoSecret

\* ------------------------------------------------------------------------
\* TriggerShopifySync, one action per database or queue call
\* ------------------------------------------------------------------------
\* the enqueue without the in_progress write before it
AfterGate_EnqueueFirst == "enqueue"

\* lines 217-226: a call past the gate sets in_progress, then enqueues
AfterGate == "write"

\* the gate is never consulted
AfterIntegration_NoGate(force) == AfterGate

\* line 204: where a call goes once it holds the integration; Force skips
\* the gate
AfterIntegration(force) == IF force THEN AfterGate ELSE "gate"

\* the integration is created before the request is validated
TriggerStart_CreateFirst(c, s, force, valid) ==
    /\ calls[c].pc = "idle"
    /\ BagCardinality(queue) + Cardinality({w \in Workers : workers[w].pc # "idle"})
          + Cardinality(InFlight) < MaxTasks
    /\ platform_integrations' = platform_integrations \cup {s}
    /\ calls' = [calls EXCEPT ![c] =
          IF ValidationError(valid) # <<>>
          THEN [pc |-> "done", ShopDomain |-> s, Force |-> force,
                shouldSkip |-> FALSE,
                result |-> [Status |-> "", err |-> ValidationError(valid)]]
          ELSE [pc |-> AfterIntegration(force),
                ShopDomain |-> s, Force |-> force, shouldSkip |-> FALSE,
                result |-> NoResult]]
    /\ UNCHANGED <<shopify_users, shopify, tables, now, sync_states, queue, workers>>

\* lines 171-201: validation reads and GetPlatformIntegrationByShopAndType
TriggerStart(c, s, force, valid) ==
    /\ calls[c].pc = "idle"
    /\ BagCardinality(queue) + Cardinality({w \in Workers : workers[w].pc # "idle"})
          + Cardinality(InFlight) < MaxTasks
    /\ calls' = [calls EXCEPT ![c] =
          IF ValidationError(valid) # <<>>
          THEN [pc |-> "done", ShopDomain |-> s, Force |-> force,
                shouldSkip |-> FALSE,
                result |-> [Status |-> "", err |-> ValidationError(valid)]]
          ELSE [pc |-> IF s \in platform_integrations
                       THEN AfterIntegration(force) ELSE "create",
                ShopDomain |-> s, Force |-> force, shouldSkip |-> FALSE,
                result |-> NoResult]]
    /\ UNCHANGED <<shopify_users, shopify, tables, now, platform_integrations, sync_states, queue, workers>>

\* lines 310-322: CreatePlatformIntegration; the insert fails on the
\* UNIQUE(platform_shop_id, platform_type) constraint when the row exists
TriggerCreate(c) ==
    /\ calls[c].pc = "create"
    /\ IF calls[c].ShopDomain \in platform_integrations
       THEN /\ calls' = [calls EXCEPT ![c].pc = "done",
                                      ![c].result = [Status |-> "", err |-> UniqueViolation]]
            /\ UNCHANGED platform_integrations
       ELSE /\ platform_integrations' = platform_integrations \cup {calls[c].ShopDomain}
            /\ calls' = [calls EXCEPT ![c].pc = AfterIntegration(calls[c].Force)]
    /\ UNCHANGED <<shopify_users, shopify, tables, now, sync_states, queue, workers>>

\* lines 204-215: the dedup gate
TriggerGate(c) ==
    /\ calls[c].pc = "gate"
    /\ LET g == shouldSkipSync(GetSyncState(sync_states, calls[c].ShopDomain,
                                             EntityTypeFullSync), now)
       IN calls' = [calls EXCEPT ![c] =
             IF g.skip
             THEN [@ EXCEPT !.pc = "done", !.shouldSkip = TRUE,
                            !.result = [Status |-> g.reason, err |-> <<>>]]
             ELSE [@ EXCEPT !.pc = AfterGate]]
    /\ UNCHANGED <<shopify_users, shopify, tables, now, platform_integrations, sync_states, queue, workers>>

\* lines 217-223: WithTx(updateSyncState(in_progress)), committed
TriggerWrite(c) ==
    /\ calls[c].pc = "write"
    /\ sync_states' = WithTx(sync_states,
                          updateSyncState({}, calls[c].ShopDomain, EntityTypeFullSync,
                                          SyncStatusInProgress, <<>>, now),
                          <<>>)
    /\ calls' = [calls EXCEPT ![c].pc = "enqueue"]
    /\ UNCHANGED <<shopify_users, shopify, tables, now, platform_integrations, queue, workers>>

\* lines 225-238: EnqueueShopifyInventorySync succeeded
TriggerEnqueue(c) ==
    /\ calls[c].pc = "enqueue"
    /\ queue' = queue (+) SetToBag({Task(calls[c].ShopDomain, 0)})
    /\ calls' = [calls EXCEPT ![c].pc = "done",
                              ![c].result = [Status |-> SyncStatusInProgress, err |-> <<>>]]
    /\ UNCHANGED <<shopify_users, shopify, tables, now, platform_integrations, sync_states, workers>>

\* the enqueue failure is returned without resetting the state
TriggerEnqueueFail_NoReset(c, err) ==
    /\ calls[c].pc = "enqueue"
    /\ calls' = [calls EXCEPT ![c].pc = "done",
                              ![c].result = [Status |-> "",
                                             err |-> Wrap(err, "failed to enqueue sync task")]]
    /\ UNCHANGED <<shopify_users, shopify, tables, now, platform_integrations, sync_states, queue, workers>>

\* lines 227-233: the enqueue returned err
TriggerEnqueueFail(c, err) ==
    /\ calls[c].pc = "enqueue"
    /\ sync_states' = WithTx(sync_states,
                          updateSyncState({}, calls[c].ShopDomain, EntityTypeFullSync,
                                          SyncStatusFailed,
                                          <<"failed to enqueue sync task">>, now),
                          <<>>)
    /\ calls' = [calls EXCEPT ![c].pc = "done",
                              ![c].result = [Status |-> "",
                                             err |-> Wrap(err, "failed to enqueue sync task")]]
    /\ UNCHANGED <<shopify_users, shopify, tables, now, platform_integrations, queue, workers>>

\* ------------------------------------------------------------------------
\* The queue (asynq) and the worker: HandleShopifyInventorySync calls
\* SyncInventory behind recoveryMiddleware
\* ------------------------------------------------------------------------
\* asynq.SkipRetry
SkipRetry == <<"skip retry for the task">>

\* asynq after a handler returned err: the task is scheduled for retry
\* unless err is SkipRetry or its retries are used up (then it is archived)
HandleFailed(q, t, err) ==
    IF err = SkipRetry \/ t.retried >= MaxRetry
    THEN q
    ELSE q (+) SetToBag({Task(t.IntegrationID, t.retried + 1)})

\* a recovery that hands the panic to the queue as an ordinary error
recoveryMiddleware_Retriable(panicked, err) == IF panicked THEN <<"panic">> ELSE err

\* recoveryMiddleware: the error the queue sees for a handler that
\* panicked
recoveryMiddleware(panicked, err) == IF panicked THEN SkipRetry ELSE err

\* InventorySyncManager.handleSyncError: (rows staged in tx, error returned);
\* txAborted: a statement of tx already failed, so the upsert fails too and
\* that failure is only logged
handleSyncError(tx, txAborted, i, message, err, t) ==
    LET fullError == Wrap(err, message)
    IN [tx |-> IF txAborted THEN tx
               ELSE updateSyncState(tx, i, EntityTypeFullSync, SyncStatusFailed,
                                    fullError, t),
        err |-> fullError]

WorkerOf(w) == Task(workers[w].IntegrationID, workers[w].retried)

\* the queue hands a task to an idle worker: loggingMiddleware logs it,
\* SyncInventory opens WithTx
WorkerDeliver(w, t) ==
    /\ workers[w].pc = "idle"
    /\ BagIn(t, queue)
    /\ queue' = queue (-) SetToBag({t})
    /\ workers' = [workers EXCEPT ![w] =
          [pc |-> "running", IntegrationID |-> t.IntegrationID,
           retried |-> t.retried, tx |-> {}, lastSyncedAt |-> NullTimestamp,
           logged |-> loggingMiddleware(t)]]
    /\ UNCHANGED <<shopify_users, shopify, tables, now, platform_integrations, sync_states, calls>>

\* the rows the run of worker w is to write, and the upserts for them
SyncData(w) ==
    normalizeShopifyData(workers[w].IntegrationID, shopify[workers[w].IntegrationID],
                         Committed)
\* the conflict keys the upserts of worker w lock until its transaction ends
RowKeys(w) ==
    {<<st.table, st.row.external_id>> :
        st \in {Statements(SyncData(w))[k] : k \in 1..Len(Statements(SyncData(w)))}}
\* the entity tables as staged in the transaction of worker w once every
\* upsert of its write phase has succeeded
Staged(w) == batchSyncAllData(Committed, SyncData(w), 0).db

\* every write of an aborted transaction is kept
WithTxEntities_CommitOnError(committed, staged, err) == staged

\* DB.WithTx for the entity tables: the staged tables are committed exactly
\* when the callback returned nil
WithTxEntities(committed, staged, err) == IF err = <<>> THEN staged ELSE committed

\* the entity tables after the step are db
TablesBecome(db) ==
    /\ locations' = db.locations
    /\ products' = db.products
    /\ product_variants' = db.product_variants
    /\ inventory_items' = db.inventory_items

\* lines 394-401 for worker w whose updateSyncState read time t:
\* UpsertSyncState(completed, t) is staged and WithTx commits it together
\* with the upserts of the write phase
Complete(w, t) ==
    /\ sync_states' = WithTx(sync_states,
                          updateSyncState(workers[w].tx, workers[w].IntegrationID,
                                          EntityTypeFullSync, SyncStatusCompleted,
                                          <<>>, t),
                          <<>>)
    /\ TablesBecome(WithTxEntities(Committed, Staged(w), <<>>))
    /\ workers' = [workers EXCEPT ![w] = IdleWorker]
    /\ UNCHANGED <<shopify_users, shopify, now, platform_integrations, queue, calls>>

\* the completed state is written without the entity rows of the run
PipelineSucceed_StateOnly(w) ==
    /\ workers[w].pc = "running"
    /\ batchSyncAllData(Committed, SyncData(w), 0).err = <<>>
    /\ sync_states' = WithTx(sync_states,
                          updateSyncState(workers[w].tx, workers[w].IntegrationID,
                                          EntityTypeFullSync, SyncStatusCompleted,
                                          <<>>, now),
                          <<>>)
    /\ workers' = [workers EXCEPT ![w] = IdleWorker]
    /\ UNCHANGED <<shopify_users, shopify, tables, now, platform_integrations, queue, calls>>

\* lines 379-401 in one step: the fetch phase and every upsert of the write
\* phase succeeded, completed is staged with the time read and the
\* transaction commits
PipelineSucceed(w) ==
    /\ workers[w].pc = "running"
    /\ batchSyncAllData(Committed, SyncData(w), 0).err = <<>>
    /\ Complete(w, now)

\* lines 379-413, the first half of PipelineSucceed: the fetch phase and
\* every upsert of the write phase succeeded (a run whose upserts meet rows
\* locked by another open transaction waits), and updateSyncState has read
\* time.Now() for the completed state
PipelineFinalize(w) ==
    /\ workers[w].pc = "running"
    /\ batchSyncAllData(Committed, SyncData(w), 0).err = <<>>
    /\ \A v \in Workers \ {w} :
          workers[v].pc = "finalize" => RowKeys(v) \cap RowKeys(w) = {}
    /\ workers' = [workers EXCEPT ![w].pc = "finalize",
                                  ![w].lastSyncedAt = Timestamp(now)]
    /\ UNCHANGED <<shopify_users, shopify, tables, now, platform_integrations, sync_states, queue, calls>>

\* lines 416-423 and the commit, the second half of PipelineSucceed: the
\* upsert of completed carries the time read earlier
PipelineCommit(w) ==
    /\ workers[w].pc = "finalize"
    /\ Complete(w, workers[w].lastSyncedAt.Time)

\* lines 360-397: an error inside the WithTx callback.  kind "setup": lines
\* 360-374 return directly; "fetch": line 384; "write": line 391, an upsert
\* of the write phase failed, by itself or by a fault of the database, and
\* has aborted the transaction; "finalize": the upsert of completed failed
\* (lines 395-397).  The callback's error reaches WithTx (rollback) and then
\* the queue
PipelineFail(w, kind) ==
    /\ workers[w].pc = "running"
    /\ kind = "finalize" => batchSyncAllData(Committed, SyncData(w), 0).err = <<>>
    /\ \E fault \in IF kind = "write" THEN 0..Len(Statements(SyncData(w))) ELSE {0} :
          LET i == workers[w].IntegrationID
              written == batchSyncAllData(Committed, SyncData(w), fault)
              h == IF kind = "fetch"
                   THEN handleSyncError(workers[w].tx, FALSE, i,
                                        "failed to fetch data from API", FetchError, now)
                   ELSE IF kind = "write"
                   THEN handleSyncError(workers[w].tx, TRUE, i,
                                        "failed to batch sync data", written.err, now)
                   ELSE IF kind = "finalize"
                   THEN [tx |-> workers[w].tx,
                         err |-> Wrap(<<"db error">>, "failed to update sync state to completed")]
                   ELSE [tx |-> workers[w].tx, err |-> SetupError]
          IN /\ kind = "write" => written.err # <<>>
             /\ sync_states' = WithTx(sync_states, h.tx, h.err)
             /\ TablesBecome(WithTxEntities(Committed,
                                            IF kind = "write" THEN written.db
                                            ELSE IF kind = "finalize" THEN Staged(w)
                                            ELSE Committed,
                                            h.err))
             /\ queue' = HandleFailed(queue, WorkerOf(w), recoveryMiddleware(FALSE, h.err))
    /\ workers' = [workers EXCEPT ![w] = IdleWorker]
    /\ UNCHANGED <<shopify_users, shopify, now, platform_integrations, calls>>

\* the pipeline panics: WithTx rolls back and re-panics, recoveryMiddleware
\* turns the panic into SkipRetry
PipelinePanic(w) ==
    /\ workers[w].pc = "running"
    /\ sync_states' = WithTx(sync_states, workers[w].tx, <<"panic">>)
    /\ TablesBecome(WithTxEntities(Committed, Committed, <<"panic">>))
    /\ queue' = HandleFailed(queue, WorkerOf(w), recoveryMiddleware(TRUE, <<>>))
    /\ workers' = [workers EXCEPT ![w] = IdleWorker]
    /\ UNCHANGED <<shopify_users, shopify, now, platform_integrations, calls>>

\* graceful shutdown cancels the handler's context mid-pipeline: the fetch
\* returns context.Canceled, handleSyncError's upsert fails on the cancelled
\* context, WithTx rolls back and the queue sees the error
WorkerCancel(w) ==
    /\ workers[w].pc = "running"
    /\ LET h == handleSyncError(workers[w].tx, TRUE, workers[w].IntegrationID,
                                "failed to fetch data from API", CancelError, now)
       IN /\ sync_states' = WithTx(sync_states, h.tx, h.err)
          /\ TablesBecome(WithTxEntities(Committed, Committed, h.err))
          /\ queue' = HandleFailed(queue, WorkerOf(w), recoveryMiddleware(FALSE, h.err))
    /\ workers' = [workers EXCEPT ![w] = IdleWorker]
    /\ UNCHANGED <<shopify_users, shopify, now, platform_integrations, calls>>

\* "finalize": the upsert of completed failed (lines 395-397)
FailKinds == {"setup", "fetch", "write", "finalize"}

\* the HTTP handler has answered; the caller may call again
TriggerReturn(c) ==
    /\ calls[c].pc = "done"
    /\ calls' = [calls EXCEPT ![c] = IdleCall]
    /\ UNCHANGED <<shopify_users, shopify, tables, now, platform_integrations, sync_states, queue, workers>>

Tick ==
    /\ now + TickStep <= MaxTime
    /\ now' = now + TickStep
    /\ UNCHANGED <<shopify_users, shopify, tables, platform_integrations, sync_states, queue, calls, workers>>

Next ==
    \/ \E c \in Callers, s \in Shops, force \in BOOLEAN, valid \in {"ok", "no_shop"} :
          TriggerStart(c, s, force, valid)
    \/ \E c \in Callers : TriggerCreate(c)
    \/ \E c \in Callers : TriggerGate(c)
    \/ \E c \in Callers : TriggerWrite(c)
    \/ \E c \in Callers : TriggerEnqueue(c)
    \/ \E c \in Callers, err \in QueueErrors : TriggerEnqueueFail(c, err)
    \/ \E c \in Callers : TriggerReturn(c)
    \/ \E w \in Workers, t \in BagToSet(queue) : WorkerDeliver(w, t)
    \/ \E w \in Workers : PipelineSucceed(w)
    \/ \E w \in Workers, kind \in FailKinds : PipelineFail(w, kind)
    \/ \E w \in Workers : PipelinePanic(w)
    \/ \E w \in Workers : WorkerCancel(w)
    \/ Tick

Spec == Init /\ [][Next]_vars

\* ------------------------------------------------------------------------
\* Fair specifications
\* ------------------------------------------------------------------------
TriggerStep(c) ==
    \/ TriggerCreate(c)
    \/ TriggerGate(c)
    \/ TriggerWrite(c)
    \/ TriggerEnqueue(c)
    \/ \E err \in QueueErrors : TriggerEnqueueFail(c, err)
    \/ TriggerReturn(c)

PipelineEnd(w) ==
    \/ PipelineSucceed(w)
    \/ \E kind \in FailKinds : PipelineFail(w, kind)
    \/ PipelinePanic(w)

\* the worker process keeps running: no handler is cancelled
NextRunning ==
    \/ \E c \in Callers, s \in Shops, force \in BOOLEAN, valid \in {"ok", "no_shop"} :
          TriggerStart(c, s, force, valid)
    \/ \E c \in Callers : TriggerStep(c)
    \/ \E w \in Workers, t \in BagToSet(queue) : WorkerDeliver(w, t)
    \/ \E w \in Workers : PipelineEnd(w)
    \/ Tick

\* the queue delivers every waiting task while a worker is free, every
\* handler and every call runs to its end
FairSpec ==
    /\ Init /\ [][NextRunning]_vars
    /\ \A c \in Callers : WF_vars(TriggerStep(c))
    /\ WF_vars(\E w \in Workers, t \in BagToSet(queue) : WorkerDeliver(w, t))
    /\ \A w \in Workers : WF_vars(PipelineEnd(w))

\* graceful shutdowns: non-forced triggers, a queue that takes every task,
\* and handlers that either finish their pipeline or are cancelled
\* mid-pipeline
NextShutdown ==
    \/ \E c \in Callers, s \in Shops : TriggerStart(c, s, FALSE, "ok")
    \/ \E c \in Callers : TriggerCreate(c)
    \/ \E c \in Callers : TriggerGate(c)
    \/ \E c \in Callers : TriggerWrite(c)
    \/ \E c \in Callers : TriggerEnqueue(c)
    \/ \E c \in Callers : TriggerReturn(c)
    \/ \E w \in Workers, t \in BagToSet(queue) : WorkerDeliver(w, t)
    \/ \E w \in Workers : PipelineSucceed(w)
    \/ \E w \in Workers : WorkerCancel(w)
    \/ Tick

\* every call and every handler runs to its end, the queue delivers every
\* waiting task, and callers keep issuing non-forced triggers for every shop
FairShutdownSpec ==
    /\ Init /\ [][NextShutdown]_vars
    /\ \A c \in Callers :
          WF_vars(TriggerCreate(c) \/ TriggerGate(c) \/ TriggerWrite(c)
                    \/ TriggerEnqueue(c) \/ TriggerReturn(c))
    /\ \A s \in Shops : WF_vars(\E c \in Callers : TriggerStart(c, s, FALSE, "ok"))
    /\ WF_vars(\E w \in Workers, t \in BagToSet(queue) : WorkerDeliver(w, t))
    /\ \A w \in Workers : WF_vars(PipelineSucceed(w) \/ WorkerCancel(w))

\* requests of every validity against a queue and workers that never fail
NextValidation ==
    \/ \E c \in Callers, s \in Shops, force \in BOOLEAN, valid \in Validities :
          TriggerStart(c, s, force, valid)
    \/ \E c \in Callers : TriggerCreate(c)
    \/ \E c \in Callers : TriggerGate(c)
    \/ \E c \in Callers : TriggerWrite(c)
    \/ \E c \in Callers : TriggerEnqueue(c)
    \/ \E c \in Callers : TriggerReturn(c)
    \/ \E w \in Workers, t \in BagToSet(queue) : WorkerDeliver(w, t)
    \/ \E w \in Workers : PipelineSucceed(w)
    \/ Tick

ValidationSpec == Init /\ [][NextValidation]_vars

\* the merchant changes the shop's locations or products between two runs
\* of the shop
CatalogueChange(s, catalogue) ==
    /\ Running(s) = {}
    /\ \A t \in BagToSet(queue) : t.IntegrationID # s
    /\ \A c \in Callers : calls[c].ShopDomain # s
    /\ catalogue # shopify[s]
    /\ shopify' = [shopify EXCEPT ![s] = catalogue]
    /\ UNCHANGED <<shopify_users, tables, now, platform_integrations, sync_states, queue, calls,
                 workers>>

\* the pipeline against changing catalogues: one caller forcing one sync
\* after the other, one worker, upserts that fail by themselves or by a fault
\* of the database
NextData ==
    \/ \E s \in Shops : \E catalogue \in Catalogues(s) : CatalogueChange(s, catalogue)
    \/ \E s \in Shops :
          /\ queue = EmptyBag
          /\ workers[1].pc = "idle"
          /\ TriggerStart(1, s, TRUE, "ok")
    \/ TriggerCreate(1)
    \/ TriggerWrite(1)
    \/ TriggerEnqueue(1)
    \/ TriggerReturn(1)
    \/ \E t \in BagToSet(queue) : WorkerDeliver(1, t)
    \/ PipelineSucceed(1)
    \/ PipelineFail(1, "write")

DataSpec == Init /\ [][NextData]_vars

\* runs whose end is seen in its two steps, the read of the clock and the
\* commit, on workers that never fail
NextOverlap ==
    \/ \E c \in Callers, s \in Shops, force \in BOOLEAN : TriggerStart(c, s, force, "ok")
    \/ \E c \in Callers : TriggerCreate(c)
    \/ \E c \in Callers : TriggerGate(c)
    \/ \E c \in Callers : TriggerWrite(c)
    \/ \E c \in Callers : TriggerEnqueue(c)
    \/ \E c \in Callers : TriggerReturn(c)
    \/ \E w \in Workers, t \in BagToSet(queue) : WorkerDeliver(w, t)
    \/ \E w \in Workers : PipelineFinalize(w)
    \/ \E w \in Workers : PipelineCommit(w)
    \/ Tick

OverlapSpec == Init /\ [][NextOverlap]_vars

\* ------------------------------------------------------------------------
\* GetSyncStatus
\* ------------------------------------------------------------------------
SyncStatusNeverSynced == "never_synced"
SyncStatusPartialSyncOnly == "partial_sync_only"
EntityTypeProduct == "product"

\* FromCoreStatus: the four statuses map to themselves, anything else to
\* pending
FromCoreStatus(coreStatus) ==
    IF coreStatus \in {SyncStatusPending, SyncStatusInProgress,
                       SyncStatusCompleted, SyncStatusFailed}
    THEN coreStatus
    ELSE SyncStatusPending

\* SyncResult; IntegrationID 0 is "", LastSynced NullTimestamp is nil
SyncResult(i, status, lastSynced, error) ==
    [IntegrationID |-> i, Status |-> status, LastSynced |-> lastSynced, Error |-> error]

\* GetSyncStatus answering never_synced whenever no full_sync row exists
GetSyncStatus_NoPartial(shopExists, integrations, table, shopDomain) ==
    IF ~shopExists
    THEN [result |-> NoResult, err |-> Wrap(ErrNoRows, "shop not found")]
    ELSE IF shopDomain \notin integrations
    THEN [result |-> SyncResult(0, SyncStatusNeverSynced, NullTimestamp, <<>>), err |-> <<>>]
    ELSE LET fullSync == SyncStateRows(table, shopDomain, EntityTypeFullSync)
         IN IF fullSync = {}
            THEN [result |-> SyncResult(shopDomain, SyncStatusNeverSynced, NullTimestamp, <<>>),
                  err |-> <<>>]
            ELSE LET state == CHOOSE r \in fullSync : TRUE
                 IN [result |-> SyncResult(shopDomain, FromCoreStatus(state.sync_status),
                                           state.last_synced_at,
                                           state.error_message.String),
                     err |-> <<>>]

\* GetSyncStatus (lines 242-297): (result, err) from the shop, its
\* integration and the integration's sync_states rows; reads only
GetSyncStatus(shopExists, integrations, table, shopDomain) ==
    IF ~shopExists
    THEN [result |-> NoResult, err |-> Wrap(ErrNoRows, "shop not found")]
    ELSE IF shopDomain \notin integrations
    THEN [result |-> SyncResult(0, SyncStatusNeverSynced, NullTimestamp, <<>>), err |-> <<>>]
    ELSE LET syncStates == {r \in table : r.integration_id = shopDomain}
             fullSync == {r \in syncStates : r.entity_type = EntityTypeFullSync}
         IN IF syncStates = {}
            THEN [result |-> SyncResult(shopDomain, SyncStatusNeverSynced, NullTimestamp, <<>>),
                  err |-> <<>>]
            ELSE IF fullSync = {}
            THEN [result |-> SyncResult(shopDomain, SyncStatusPartialSyncOnly,
                                        NullTimestamp, <<>>),
                  err |-> <<>>]
            ELSE LET state == CHOOSE r \in fullSync : TRUE
                 IN [result |-> SyncResult(shopDomain, FromCoreStatus(state.sync_status),
                                           IF state.last_synced_at.Valid
                                           THEN state.last_synced_at ELSE NullTimestamp,
                                           IF state.error_message.Valid
                                           THEN state.error_message.String ELSE <<>>),
                     err |-> <<>>]

\* a caller asks for the status of shop s and holds the answer
StatusCall(c, s, shopExists) ==
    /\ calls[c].pc = "idle"
    /\ calls' = [calls EXCEPT ![c] =
          [IdleCall EXCEPT !.pc = "status", !.ShopDomain = s,
                           !.result = GetSyncStatus(shopExists, platform_integrations,
                                                    sync_states, s)]]
    /\ UNCHANGED <<shopify_users, shopify, tables, now, platform_integrations, sync_states, queue, workers>>

StatusReturn(c) ==
    /\ calls[c].pc = "status"
    /\ calls' = [calls EXCEPT ![c] = IdleCall]
    /\ UNCHANGED <<shopify_users, shopify, tables, now, platform_integrations, sync_states, queue, workers>>

\* what sync_states can hold for the full_sync of an integration: no row, or
\* one row of any status
FullSyncChoices(i) ==
    {{}} \cup {{SyncStateRow(i, EntityTypeFullSync, st, r[1], r[2])} :
                 st \in {SyncStatusPending, SyncStatusInProgress,
                         SyncStatusCompleted, SyncStatusFailed},
                 r \in {<<NullTimestamp, NullText>>,
                        <<Timestamp(TickStep), NullText>>,
                        <<NullTimestamp, Text(<<"failed to fetch data from API">>)>>}}

\* and for one of its entities
ProductChoices(i) ==
    {{},
     {SyncStateRow(i, EntityTypeProduct, SyncStatusCompleted, Timestamp(TickStep), NullText)}}

\* the tables sync_states can be for the integrations in is
RECURSIVE SyncStatesOf(_)
SyncStatesOf(is) ==
    IF is = {} THEN {{}}
    ELSE LET i == CHOOSE x \in is : TRUE
         IN {full \cup product \cup rest :
                full \in FullSyncChoices(i), product \in ProductChoices(i),
                rest \in SyncStatesOf(is \ {i})}

\* any database: shops with or without an integration, integrations with or
\* without a full_sync row and with or without a row of another entity
StatusInit ==
    /\ now = 0
    /\ platform_integrations \in SUBSET Shops
    /\ sync_states \in SyncStatesOf(platform_integrations)
    /\ queue = EmptyBag
    /\ calls = [c \in Callers |-> IdleCall]
    /\ workers = [w \in Workers |-> IdleWorker]
    /\ shopify = [s \in Shops |-> EmptyCatalogue]
    /\ locations = {}
    /\ products = {}
    /\ product_variants = {}
    /\ inventory_items = {}
    /\ shopify_users = NoSecret

NextStatus ==
    \/ \E c \in Callers, s \in Shops, shopExists \in BOOLEAN : StatusCall(c, s, shopExists)
    \/ \E c \in Callers : StatusReturn(c)

StatusSpec == StatusInit /\ [][NextStatus]_vars

\* ------------------------------------------------------------------------
\* Typed ids (pkg/id)
\* ------------------------------------------------------------------------
\* ID.validate: nil when the id starts with T's prefix
ID_validate(T, b) ==
    IF HasPrefix(b, Prefix(T)) THEN <<>> ELSE <<"Invalid ID prefix">>

\* ID.initValues: the id is set, then validated
ID_initValues(T, id) == [id |-> id, err |-> ID_validate(T, id)]

\* id.New[T](v)
ID_New(T, v) == ID_initValues(T, v)

\* ID.Scan into a zero ID[T]; src is nil, a string, bytes or another type
ID_Scan(T, src) ==
    IF src.kind = "nil" THEN [id |-> <<>>, err |-> <<>>]
    ELSE IF src.kind = "string" THEN ID_initValues(T, src.value)
    ELSE IF src.kind = "bytes"
    THEN IF Len(src.value) = 0
         THEN [id |-> <<>>, err |-> <<"no value for the ID">>]
         ELSE ID_initValues(T, src.value)
    ELSE [id |-> <<>>, err |-> <<"incompatible type for ID">>]

\* the entity types and the strings ids are made from: nothing, a prefix
\* alone, a prefix and a suffix, a prefix cut short, a prefix not in front
IdTypes == {"User", "Product"}
IdStrings ==
    {<<>>}
    \cup {Prefix(T) \o suffix : T \in IdTypes, suffix \in {<<>>, <<"x">>}}
    \cup {SubSeq(Prefix(T), 1, 3) : T \in IdTypes}
    \cup {<<"x">> \o Prefix(T) : T \in IdTypes}
\* what a driver hands to Scan
IdSources ==
    {[kind |-> "nil", value |-> <<>>], [kind |-> "other", value |-> <<>>]}
    \cup {[kind |-> k, value |-> v] : k \in {"string", "bytes"}, v \in IdStrings}

\* a caller builds an id of type T from a string, reads one from a column,
\* or generates one, and holds the outcome
IdNew(c, T, v) ==
    /\ calls[c].pc = "idle"
    /\ calls' = [calls EXCEPT ![c] =
          [IdleCall EXCEPT !.pc = "id",
                           !.result = [op |-> "New", T |-> T,
                                       src |-> [kind |-> "string", value |-> v],
                                       out |-> ID_New(T, v)]]]
    /\ UNCHANGED <<shopify_users, shopify, tables, now, platform_integrations, sync_states,
                   queue, workers>>

IdScan(c, T, src) ==
    /\ calls[c].pc = "idle"
    /\ calls' = [calls EXCEPT ![c] =
          [IdleCall EXCEPT !.pc = "id",
                           !.result = [op |-> "Scan", T |-> T, src |-> src,
                                       out |-> ID_Scan(T, src)]]]
    /\ UNCHANGED <<shopify_users, shopify, tables, now, platform_integrations, sync_states,
                   queue, workers>>

IdGenerate(c, T, k) ==
    /\ calls[c].pc = "idle"
    /\ calls' = [calls EXCEPT ![c] =
          [IdleCall EXCEPT !.pc = "id",
                           !.result = [op |-> "NewGeneration", T |-> T,
                                       src |-> [kind |-> "nil", value |-> <<>>],
                                       out |-> [id |-> NewGeneration(Prefix(T), 0, {}, k),
                                                err |-> <<>>]]]]
    /\ UNCHANGED <<shopify_users, shopify, tables, now, platform_integrations, sync_states,
                   queue, workers>>

IdReturn(c) ==
    /\ calls[c].pc = "id"
    /\ calls' = [calls EXCEPT ![c] = IdleCall]
    /\ UNCHANGED <<shopify_users, shopify, tables, now, platform_integrations, sync_states,
                   queue, workers>>

NextId ==
    \/ \E c \in Callers, T \in IdTypes, v \in IdStrings : IdNew(c, T, v)
    \/ \E c \in Callers, T \in IdTypes, src \in IdSources : IdScan(c, T, src)
    \/ \E c \in Callers, T \in IdTypes, k \in 1..2 : IdGenerate(c, T, k)
    \/ \E c \in Callers : IdReturn(c)

IdSpec == Init /\ [][NextId]_vars

\* ------------------------------------------------------------------------
\* NormalizeDomain (the sync HTTP handler)
\* ------------------------------------------------------------------------
\* strings.TrimSpace, TrimPrefix, HasSuffix, TrimSuffix on texts made of the
\* parts " ", "https://", "http://", "/", "demo" and ".myshopify.com"
RECURSIVE TrimSpace(_)
TrimSpace(str) ==
    IF str = <<>> THEN <<>>
    ELSE IF Head(str) = " " THEN TrimSpace(Tail(str))
    ELSE IF str[Len(str)] = " " THEN TrimSpace(SubSeq(str, 1, Len(str) - 1))
    ELSE str
TrimPrefix(str, prefix) ==
    IF HasPrefix(str, prefix) THEN SubSeq(str, Len(prefix) + 1, Len(str)) ELSE str
HasSuffix(str, suffix) ==
    Len(str) >= Len(suffix) /\ SubSeq(str, Len(str) - Len(suffix) + 1, Len(str)) = suffix
TrimSuffix(str, suffix) ==
    IF HasSuffix(str, suffix) THEN SubSeq(str, 1, Len(str) - Len(suffix)) ELSE str

\* NormalizeDomain (part_003:7-26)
NormalizeDomain(domain) ==
    LET trimmed == TrimSpace(domain)
        bare == TrimSuffix(TrimPrefix(TrimPrefix(trimmed, <<"https://">>), <<"http://">>),
                           <<"/">>)
    IN IF trimmed = <<>> THEN <<>>
       ELSE IF ~HasSuffix(bare, <<".myshopify.com">>)
       THEN bare \o <<".myshopify.com">>
       ELSE bare

\* GetShopifyStoreByDomain: the one shop of the store table, found under its
\* stored domain only; 0 is no row
GetShopifyStoreByDomain(domain) ==
    IF domain = <<"demo", ".myshopify.com">> THEN 1 ELSE 0

\* what a request may carry as shop_domain
DomainParts == {" ", "https://", "http://", "/", "demo", ".myshopify.com"}
Domains == UNION {[1..n -> DomainParts] : n \in 1..MaxDomainLen}

\* the handler TriggerSync normalises the shop_domain of a request and the
\* manager looks the shop up
NormalizeCall(c, domain) ==
    /\ calls[c].pc = "idle"
    /\ calls' = [calls EXCEPT ![c] =
          [IdleCall EXCEPT !.pc = "domain",
                           !.ShopDomain = GetShopifyStoreByDomain(NormalizeDomain(domain)),
                           !.result = [domain |-> domain,
                                       normalizedShopDomain |-> NormalizeDomain(domain)]]]
    /\ UNCHANGED <<shopify_users, shopify, tables, now, platform_integrations, sync_states,
                   queue, workers>>

NormalizeReturn(c) ==
    /\ calls[c].pc = "domain"
    /\ calls' = [calls EXCEPT ![c] = IdleCall]
    /\ UNCHANGED <<shopify_users, shopify, tables, now, platform_integrations, sync_states,
                   queue, workers>>

\* one caller, one request after the other
NextDomain ==
    \/ \E domain \in Domains : NormalizeCall(1, domain)
    \/ NormalizeReturn(1)

DomainSpec == Init /\ [][NextDomain]_vars

\* ------------------------------------------------------------------------
\* Worker.HandleShopifyInventorySync of worker/server.go:
\* CoreInventoryService.SyncShopifyData
\* ------------------------------------------------------------------------
\* 4*time.Hour, in minutes
ServiceCooldownMinutes == 240

\* the values of the enum entity_type of the schema
EntityTypes == {"products", "orders", "inventory", "locations", "full_sync"}

\* lines 84-103: what SyncShopifyData decides from the full_sync state it
\* read at time t; the time of a NULL last_synced_at is the zero time, far
\* more than four hours ago
SyncShopifyDataSkips(read, t) ==
    LET syncState == read.row
    IN IF read.err # <<>>
       THEN [skip |-> FALSE, logged |-> <<>>]
       ELSE IF syncState.sync_status = SyncStatusInProgress
       THEN [skip |-> TRUE, logged |-> <<"Sync already in progress">>]
       ELSE IF /\ syncState.last_synced_at.Valid
               /\ t - syncState.last_synced_at.Time < ServiceCooldownMinutes
               /\ syncState.sync_status = SyncStatusCompleted
       THEN [skip |-> TRUE, logged |-> <<"Skipping sync - completed recently">>]
       ELSE [skip |-> FALSE, logged |-> <<>>]

\* markSyncFailed: the upsert of a failed state under entityType, which is
\* the step that failed and not full_sync; a value that is not of the enum
\* makes the upsert fail, which is only logged
markSyncFailed(table, i, entityType, syncErr, t) ==
    IF entityType \in EntityTypes
    THEN UpsertSyncState(table, SyncStateRow(i, entityType, SyncStatusFailed,
                                             Timestamp(t), Text(syncErr)))
    ELSE table

\* the upserts of SyncLocations and SyncProducts in the order they are
\* issued: every location, then every product followed by its variants,
\* each row with a fresh id and the variants under the fresh id of their
\* product (SyncOrders writes tables that are not modelled)
ServiceStatements(integrationID, catalogue, db) ==
    LET syncData == normalizeShopifyData(integrationID, catalogue, db)
    IN [k \in 1..Len(syncData.Locations) |->
           [table |-> "locations", row |-> syncData.Locations[k],
            message |-> "failed to sync locations"]]
       \o Flatten([k \in 1..Len(syncData.Products) |->
              <<[table |-> "products", row |-> syncData.Products[k],
                 message |-> "failed to sync products"]>>
              \o LET variants == SelectSeq(syncData.ProductVariants,
                                           LAMBDA v : v.product_id = syncData.Products[k].id)
                 IN [j \in 1..Len(variants) |->
                        [table |-> "product_variants", row |-> variants[j],
                         message |-> "failed to sync products"]]])

\* lines 120-133 for the run of worker w: each upsert is its own
\* transaction, so the tables keep what was written before an error
ServiceWritten(w, fault) ==
    batchSyncFrom(Committed,
                  ServiceStatements(workers[w].IntegrationID,
                                    shopify[workers[w].IntegrationID], Committed),
                  1, fault)

\* server.go:220-233 and part_017:77-118: the queue hands task t to worker
\* w; SyncShopifyData reads the full_sync state and returns nil without
\* syncing when it is in_progress or recently completed, and otherwise
\* marks in_progress and starts
ServiceDeliver(w, t) ==
    LET i == t.IntegrationID
        decision == SyncShopifyDataSkips(GetSyncState(sync_states, i, EntityTypeFullSync), now)
    IN /\ workers[w].pc = "idle"
       /\ BagIn(t, queue)
       /\ queue' = queue (-) SetToBag({t})
       /\ IF decision.skip
          THEN /\ workers' = [workers EXCEPT ![w] =
                     [IdleWorker EXCEPT !.IntegrationID = i, !.logged = decision.logged]]
               /\ UNCHANGED sync_states
          ELSE /\ workers' = [workers EXCEPT ![w] =
                     [IdleWorker EXCEPT !.pc = "syncing", !.IntegrationID = i,
                                        !.retried = t.retried,
                                        !.logged = <<"Starting Shopify sync">>]]
               /\ sync_states' = UpsertSyncState(sync_states,
                                     SyncStateRow(i, EntityTypeFullSync, SyncStatusInProgress,
                                                  Timestamp(now), NullText))
       /\ UNCHANGED <<shopify_users, shopify, tables, now, platform_integrations, calls>>

\* lines 120-150: every upsert succeeded, completed is written
ServiceSucceed(w) ==
    /\ workers[w].pc = "syncing"
    /\ ServiceWritten(w, 0).err = <<>>
    /\ TablesBecome(ServiceWritten(w, 0).db)
    /\ sync_states' = UpsertSyncState(sync_states,
                          SyncStateRow(workers[w].IntegrationID, EntityTypeFullSync,
                                       SyncStatusCompleted, Timestamp(now), NullText))
    /\ workers' = [workers EXCEPT ![w] = IdleWorker]
    /\ UNCHANGED <<shopify_users, shopify, now, platform_integrations, queue, calls>>

\* lines 120-128: an upsert failed, by itself or by a fault of the
\* database; markSyncFailed is called with "locations" or "products" and
\* the error goes to the queue
ServiceFail(w) ==
    /\ workers[w].pc = "syncing"
    /\ \E fault \in 0..Len(ServiceStatements(workers[w].IntegrationID,
                                              shopify[workers[w].IntegrationID],
                                              Committed)) :
          LET written == ServiceWritten(w, fault)
              i == workers[w].IntegrationID
          IN /\ written.err # <<>>
             /\ TablesBecome(written.db)
             /\ sync_states' = markSyncFailed(sync_states, i,
                                   IF Head(written.err) = "failed to sync locations"
                                   THEN "locations" ELSE "products",
                                   written.err, now)
             /\ queue' = HandleFailed(queue, WorkerOf(w), written.err)
    /\ workers' = [workers EXCEPT ![w] = IdleWorker]
    /\ UNCHANGED <<shopify_users, shopify, now, platform_integrations, calls>>

\* the triggers of one caller with the handler of server.go on one worker,
\* all within the cooldown; one shop opens with a catalogue and keeps it
NextService ==
    \/ \E s \in Shops : \E catalogue \in Catalogues(s) :
          /\ \A x \in Shops : shopify[x] = EmptyCatalogue
          /\ CatalogueChange(s, catalogue)
    \/ \E s \in Shops, force \in BOOLEAN : TriggerStart(1, s, force, "ok")
    \/ TriggerCreate(1)
    \/ TriggerGate(1)
    \/ TriggerWrite(1)
    \/ TriggerEnqueue(1)
    \/ \E err \in QueueErrors : TriggerEnqueueFail(1, err)
    \/ TriggerReturn(1)
    \/ \E t \in BagToSet(queue) : ServiceDeliver(1, t)
    \/ ServiceSucceed(1)
    \/ ServiceFail(1)

ServiceSpec == Init /\ [][NextService]_vars

\* ------------------------------------------------------------------------
\* The gate when the read of the state fails
\* ------------------------------------------------------------------------
\* GetSyncState failing for a reason of the database (connection, timeout):
\* the zero row and the error
GetSyncStateFailed(i, et) ==
    [err |-> <<"db error">>,
     row |-> SyncStateRow(i, et, SyncStatusPending, NullTimestamp, NullText)]

\* lines 203-215 when the GetSyncState of shouldSkipSync fails
TriggerGateReadFail(c) ==
    /\ calls[c].pc = "gate"
    /\ LET g == shouldSkipSync(GetSyncStateFailed(calls[c].ShopDomain, EntityTypeFullSync),
                               now)
       IN calls' = [calls EXCEPT ![c] =
             IF g.skip
             THEN [@ EXCEPT !.pc = "done", !.shouldSkip = TRUE,
                            !.result = [Status |-> g.reason, err |-> <<>>]]
             ELSE [@ EXCEPT !.pc = AfterGate]]
    /\ UNCHANGED <<shopify_users, shopify, tables, now, platform_integrations, sync_states,
                   queue, workers>>

\* the triggers of the callers with a state that may fail to be read, and
\* workers that succeed
NextGate ==
    \/ \E c \in Callers, s \in Shops, force \in BOOLEAN : TriggerStart(c, s, force, "ok")
    \/ \E c \in Callers : TriggerCreate(c)
    \/ \E c \in Callers : TriggerGate(c)
    \/ \E c \in Callers : TriggerGateReadFail(c)
    \/ \E c \in Callers : TriggerWrite(c)
    \/ \E c \in Callers : TriggerEnqueue(c)
    \/ \E c \in Callers : TriggerReturn(c)
    \/ \E w \in Workers, t \in BagToSet(queue) : WorkerDeliver(w, t)
    \/ \E w \in Workers : PipelineSucceed(w)
    \/ Tick

GateSpec == Init /\ [][NextGate]_vars

\* ------------------------------------------------------------------------
\* The Shopify client and the loops that page through it
\* ------------------------------------------------------------------------
\* the entity classes fetched page by page
Entities == {"locations", "products", "orders"}

\* what Shopify answers for a request of limit records at cursor pageInfo
\* of an entity class with total records, numbered 1..total; a cursor is
\* the number of records before the page, "" is 0; PageLimit stands for the
\* limit of 250 both loops pass
ShopifyPage(total, limit, pageInfo) ==
    [Records |-> [k \in 1..(IF total - pageInfo < limit THEN total - pageInfo ELSE limit) |->
                     pageInfo + k],
     Pagination |-> [NextPageInfo |-> IF pageInfo + limit < total
                                      THEN pageInfo + limit ELSE 0]]

\* Client.makeRequestWithPagination behind GetLocations, GetProducts and
\* GetOrders: rateLimiter.Wait(ctx) first, which fails when ctx is
\* cancelled, then the request.  (requests sent, response, error)
makeRequestWithPagination(endpoint, total, limit, pageInfo, cancelled) ==
    IF cancelled
    THEN [sent |-> <<>>, response |-> ShopifyPage(0, limit, 0),
          err |-> Wrap(<<"context canceled">>, "rate limiter error")]
    ELSE [sent |-> <<[endpoint |-> endpoint, pageInfo |-> pageInfo, token |-> TRUE]>>,
          response |-> ShopifyPage(total, limit, pageInfo), err |-> <<>>]

\* Client.GetShop: the request goes through the go-shopify client, which
\* has no rate limiter and fails on a cancelled ctx before sending
GetShop(cancelled) ==
    IF cancelled
    THEN [sent |-> <<>>,
          err |-> Wrap(<<"context canceled">>, "failed to get shop using go-shopify client")]
    ELSE [sent |-> <<[endpoint |-> "shop", pageInfo |-> 0, token |-> FALSE]>>, err |-> <<>>]

\* the state of a fetch: the entity class being paged, the cursor, the
\* records accumulated and the requests sent so far
Fetching(kind, entity, total) ==
    [kind |-> kind, entity |-> entity, total |-> total, pageInfo |-> 0,
     records |-> [e \in Entities |-> <<>>], requests |-> <<>>, err |-> <<>>]

\* a caller starts fetchAllShopifyData, SyncOrders or GetShop against a
\* shop with total[e] records of class e
FetchStart(c, kind, total) ==
    /\ calls[c].pc = "idle"
    /\ \A e \in Entities :
          total[e] # 0 => IF kind = "fetchAllShopifyData" THEN e # "orders"
                          ELSE kind = "SyncOrders" /\ e = "orders"
    /\ calls' = [calls EXCEPT ![c] =
          [IdleCall EXCEPT !.pc = "fetch",
                           !.result = Fetching(kind,
                                               CASE kind = "fetchAllShopifyData" -> "locations"
                                                 [] kind = "SyncOrders" -> "orders"
                                                 [] OTHER -> "shop",
                                               total)]]
    /\ UNCHANGED <<shopify_users, shopify, tables, now, platform_integrations, sync_states,
                   queue, workers>>

\* part_024:470-498, one turn of the loop over locations and then of the
\* loop over products: the call with the cursor, the append, and the next
\* cursor or the end of the loop
fetchAllShopifyDataPage(c, cancelled) ==
    LET f == calls[c].result
        r == makeRequestWithPagination(f.entity, f.total[f.entity], PageLimit, f.pageInfo,
                                       cancelled)
        g == [f EXCEPT !.requests = @ \o r.sent,
                       !.records[f.entity] = @ \o r.response.Records]
    IN /\ calls[c].pc = "fetch"
       /\ f.kind = "fetchAllShopifyData"
       /\ calls' = [calls EXCEPT ![c] =
             IF r.err # <<>>
             THEN [@ EXCEPT !.pc = "fetched",
                            !.result = [f EXCEPT !.err = Wrap(r.err, "failed to fetch")]]
             ELSE IF r.response.Pagination.NextPageInfo # 0
             THEN [@ EXCEPT !.result =
                      [g EXCEPT !.pageInfo = r.response.Pagination.NextPageInfo]]
             ELSE IF f.entity = "locations"
             THEN [@ EXCEPT !.result = [g EXCEPT !.entity = "products", !.pageInfo = 0]]
             ELSE [@ EXCEPT !.pc = "fetched", !.result = g]]
       /\ UNCHANGED <<shopify_users, shopify, tables, now, platform_integrations,
                      sync_states, queue, workers>>

\* part_017:315-327, one turn of the loop of SyncOrders: the call with
\* pageInfo, which the loop never assigns, the append, and the end of the
\* loop on a page shorter than the limit
SyncOrdersPage(c, cancelled) ==
    LET f == calls[c].result
        r == makeRequestWithPagination("orders", f.total["orders"], PageLimit, f.pageInfo,
                                       cancelled)
        g == [f EXCEPT !.requests = @ \o r.sent,
                       !.records["orders"] = @ \o r.response.Records]
    IN /\ calls[c].pc = "fetch"
       /\ f.kind = "SyncOrders"
       /\ Len(f.requests) < MaxRequests
       /\ calls' = [calls EXCEPT ![c] =
             IF r.err # <<>>
             THEN [@ EXCEPT !.pc = "fetched",
                            !.result = [f EXCEPT !.err = Wrap(r.err,
                                                              "failed to get orders from Shopify")]]
             ELSE IF Len(r.response.Records) < PageLimit
             THEN [@ EXCEPT !.pc = "fetched", !.result = g]
             ELSE [@ EXCEPT !.result = g]]
       /\ UNCHANGED <<shopify_users, shopify, tables, now, platform_integrations,
                      sync_states, queue, workers>>

\* a caller asks for the shop
GetShopCall(c, cancelled) ==
    LET f == calls[c].result
        r == GetShop(cancelled)
    IN /\ calls[c].pc = "fetch"
       /\ f.kind = "GetShop"
       /\ calls' = [calls EXCEPT ![c] =
             [@ EXCEPT !.pc = "fetched",
                       !.result = [f EXCEPT !.requests = @ \o r.sent, !.err = r.err]]]
       /\ UNCHANGED <<shopify_users, shopify, tables, now, platform_integrations,
                      sync_states, queue, workers>>

FetchReturn(c) ==
    /\ calls[c].pc = "fetched"
    /\ calls' = [calls EXCEPT ![c] = IdleCall]
    /\ UNCHANGED <<shopify_users, shopify, tables, now, platform_integrations, sync_states,
                   queue, workers>>

\* one caller, one fetch after the other
NextFetch ==
    \/ \E kind \in {"fetchAllShopifyData", "SyncOrders", "GetShop"} :
          \E total \in [Entities -> 0..MaxRecords] : FetchStart(1, kind, total)
    \/ \E cancelled \in BOOLEAN : fetchAllShopifyDataPage(1, cancelled)
    \/ \E cancelled \in BOOLEAN : SyncOrdersPage(1, cancelled)
    \/ \E cancelled \in BOOLEAN : GetShopCall(1, cancelled)
    \/ FetchReturn(1)

FetchSpec == Init /\ [][NextFetch]_vars

\* ------------------------------------------------------------------------
\* The statuses of products and orders
\* ------------------------------------------------------------------------
\* the enum types of the columns
product_status == {"active", "archived", "draft"}
financial_status == {"pending", "authorized", "partially_paid", "paid",
                     "partially_refunded", "refunded", "voided"}
fulfillment_status == {"fulfilled", "null", "partial", "restocked"}

\* what the platform may send: the values of the sets, the value of another
\* set, a value of no set and the empty text
ExternalStatuses == product_status \cup financial_status \cup fulfillment_status
                        \cup {"unlisted", ""}
\* a *string: <<>> is nil, <<s>> points to s
ExternalPointers == {<<>>} \cup {<<s>> : s \in fulfillment_status \cup {"paid", "unfulfilled", ""}}

\* part_024:570-580, the switch over product.Status
productStatus(Status) ==
    CASE Status = "active" -> "active"
      [] Status = "archived" -> "archived"
      [] Status = "draft" -> "draft"
      [] OTHER -> "draft"

\* part_024:677-695, the switch over order.FinancialStatus
financialStatus(FinancialStatus) ==
    CASE FinancialStatus = "pending" -> "pending"
      [] FinancialStatus = "authorized" -> "authorized"
      [] FinancialStatus = "partially_paid" -> "partially_paid"
      [] FinancialStatus = "paid" -> "paid"
      [] FinancialStatus = "partially_refunded" -> "partially_refunded"
      [] FinancialStatus = "refunded" -> "refunded"
      [] FinancialStatus = "voided" -> "voided"
      [] OTHER -> "pending"

\* part_017:337, the service of the earlier handler: the text is cast
fulfillmentStatus_Cast(FulfillmentStatus) ==
    IF FulfillmentStatus # <<>> THEN FulfillmentStatus[1] ELSE ""

\* part_024:697-711, the switch over *order.FulfillmentStatus, nil included
fulfillmentStatus(FulfillmentStatus) ==
    IF FulfillmentStatus # <<>>
    THEN CASE FulfillmentStatus[1] = "fulfilled" -> "fulfilled"
           [] FulfillmentStatus[1] = "partial" -> "partial"
           [] FulfillmentStatus[1] = "restocked" -> "restocked"
           [] OTHER -> "null"
    ELSE "null"

\* part_024:569-596 and 671-728: the rows normalizeShopifyData appends for
\* the products and the orders it is given, one row each, in their order
normalizeStatuses(shopifyProducts, shopifyOrders) ==
    [Products |-> [k \in 1..Len(shopifyProducts) |->
                      [Status |-> productStatus(shopifyProducts[k].Status)]],
     Orders |-> [k \in 1..Len(shopifyOrders) |->
                    [FinancialStatus |-> financialStatus(shopifyOrders[k].FinancialStatus),
                     FulfillmentStatus |->
                         fulfillmentStatus(shopifyOrders[k].FulfillmentStatus)]]]

\* a call of normalizeShopifyData with one product and one order
NormalizeStatusesCall(c, product, order) ==
    /\ calls[c].pc = "idle"
    /\ calls' = [calls EXCEPT ![c] =
          [IdleCall EXCEPT !.pc = "statuses",
                           !.result = [products |-> <<product>>, orders |-> <<order>>,
                                       syncData |-> normalizeStatuses(<<product>>, <<order>>)]]]
    /\ UNCHANGED <<shopify_users, shopify, tables, now, platform_integrations, sync_states,
                   queue, workers>>

NormalizeStatusesReturn(c) ==
    /\ calls[c].pc = "statuses"
    /\ calls' = [calls EXCEPT ![c] = IdleCall]
    /\ UNCHANGED <<shopify_users, shopify, tables, now, platform_integrations, sync_states,
                   queue, workers>>

\* one caller, one call after the other
NextStatuses ==
    \/ \E Status \in ExternalStatuses :
          \E FinancialStatus \in ExternalStatuses :
             \E FulfillmentStatus \in ExternalPointers :
                NormalizeStatusesCall(1, [Status |-> Status],
                                      [FinancialStatus |-> FinancialStatus,
                                       FulfillmentStatus |-> FulfillmentStatus])
    \/ NormalizeStatusesReturn(1)

EnumSpec == Init /\ [][NextStatuses]_vars

\* ------------------------------------------------------------------------
\* DB.WithTx, branch by branch
\* ------------------------------------------------------------------------
\* how a callback may end: with nil, with an error, or with a panic
FnEnds == {[err |-> <<>>, panic |-> <<>>],
           [err |-> <<"callback failed">>, panic |-> <<>>],
           [err |-> <<>>, panic |-> <<"panic">>]}
\* what Begin, Rollback and Commit of the pool may return
DriverErrs == {<<>>, <<"conn closed">>}

\* every branch taken commits
DBWithTx_CommitsAlways(table, tx, fn, beginErr, rollbackErr, commitErr) ==
    [table |-> ApplyTx(table, tx), committed |-> TRUE,
     trace |-> <<"Begin", "fn", "Commit">>, err |-> fn.err, panic |-> fn.panic]

\* DB.WithTx with the outcomes of the driver: the table afterwards, whether
\* the transaction was committed, the calls made in their order, the error
\* returned and the panic raised.  WithTx above is the case of a driver that
\* never fails.
DBWithTx(table, tx, fn, beginErr, rollbackErr, commitErr) ==
    IF beginErr # <<>>
    THEN [table |-> table, committed |-> FALSE, trace |-> <<"Begin">>,
          err |-> Wrap(beginErr, "failed to begin transaction"), panic |-> <<>>]
    ELSE IF fn.panic # <<>>
    THEN \* the deferred recover: Rollback, then panic(p)
         [table |-> table, committed |-> FALSE, trace |-> <<"Begin", "fn", "Rollback">>,
          err |-> <<>>, panic |-> fn.panic]
    ELSE IF fn.err # <<>>
    THEN [table |-> table, committed |-> FALSE, trace |-> <<"Begin", "fn", "Rollback">>,
          err |-> IF rollbackErr # <<>>
                  THEN Wrap(fn.err, "transaction failed, rollback also failed")
                  ELSE fn.err,
          panic |-> <<>>]
    ELSE IF commitErr # <<>>
    THEN [table |-> table, committed |-> FALSE, trace |-> <<"Begin", "fn", "Commit">>,
          err |-> Wrap(commitErr, "failed to commit transaction"), panic |-> <<>>]
    ELSE [table |-> ApplyTx(table, tx), committed |-> TRUE,
          trace |-> <<"Begin", "fn", "Commit">>, err |-> <<>>, panic |-> <<>>]

\* a call of WithTx whose callback stages the full_sync row of integration i
\* with the given status and ends as fn says
WithTxCall(c, i, status, fn, beginErr, rollbackErr, commitErr) ==
    /\ calls[c].pc = "idle"
    /\ LET tx == updateSyncState({}, i, EntityTypeFullSync, status, <<>>, now)
           out == DBWithTx(sync_states, tx, fn, beginErr, rollbackErr, commitErr)
       IN /\ sync_states' = out.table
          /\ calls' = [calls EXCEPT ![c] =
                [IdleCall EXCEPT !.pc = "tx",
                                 !.result = [before |-> sync_states, tx |-> tx, fn |-> fn,
                                             rollbackErr |-> rollbackErr,
                                             commitErr |-> commitErr, out |-> out]]]
    /\ UNCHANGED <<shopify_users, shopify, tables, now, platform_integrations, queue, workers>>

WithTxReturn(c) ==
    /\ calls[c].pc = "tx"
    /\ calls' = [calls EXCEPT ![c] = IdleCall]
    /\ UNCHANGED <<shopify_users, shopify, tables, now, platform_integrations, sync_states,
                   queue, workers>>

\* one caller, one transaction after the other
NextTx ==
    \/ \E i \in Shops :
          \E status \in {SyncStatusInProgress, SyncStatusCompleted, SyncStatusFailed} :
             \E fn \in FnEnds :
                \E beginErr \in DriverErrs :
                   \E rollbackErr \in DriverErrs :
                      \E commitErr \in DriverErrs :
                         WithTxCall(1, i, status, fn, beginErr, rollbackErr, commitErr)
    \/ WithTxReturn(1)

TxSpec == Init /\ [][NextTx]_vars

\* ------------------------------------------------------------------------
\* The inventory items of the variants, batch by batch
\* ------------------------------------------------------------------------
\* the variants of the fetched products by their inventory_item_id (0: the
\* variant has none), cut into two products; one id more than a batch holds
ItemIDs == 0..(batchSize + 1)
VariantLists == UNION {[1..n -> ItemIDs] : n \in 0..MaxVariants}

\* every id of every variant, repeated and zero ones too
inventoryItemIDs_Repeated(fetched) == Flatten(fetched)

\* part_024:619-629, the map inventoryItemIDs and the list: the non-zero
\* ids of the variants of the products in their order, each at its first
\* occurrence
inventoryItemIDs(fetched) ==
    FirstSeen(SelectSeq(Flatten(fetched), LAMBDA n : n # 0), {})

\* part_024:635-640, batch := inventoryItemIDList[i:end]
Batch(inventoryItemIDList, i) ==
    LET end == IF i + batchSize > Len(inventoryItemIDList)
               THEN Len(inventoryItemIDList) ELSE i + batchSize
    IN SubSeq(inventoryItemIDList, i + 1, end)

\* Client.GetInventoryItems: no request for no ids, else one request with
\* the ids; the items of the ids come back unless the request fails
GetInventoryItems(inventoryItemIDs_, failed) ==
    IF inventoryItemIDs_ = <<>>
    THEN [sent |-> <<>>, InventoryItems |-> <<>>, err |-> <<>>]
    ELSE IF failed
    THEN [sent |-> <<inventoryItemIDs_>>, InventoryItems |-> <<>>,
          err |-> Wrap(<<"request failed">>, "failed to get inventory items")]
    ELSE [sent |-> <<inventoryItemIDs_>>,
          InventoryItems |-> [k \in 1..Len(inventoryItemIDs_) |-> [ID |-> inventoryItemIDs_[k]]],
          err |-> <<>>]

\* normalizeShopifyData reaches its step 4 with the fetched products
ItemsStart(c, fetched) ==
    /\ calls[c].pc = "idle"
    /\ calls' = [calls EXCEPT ![c] =
          [IdleCall EXCEPT !.pc = "items",
                           !.result = [products |-> fetched,
                                       inventoryItemIDList |-> inventoryItemIDs(fetched),
                                       i |-> 0, requests |-> <<>>,
                                       InventoryItems |-> <<>>, err |-> <<>>]]]
    /\ UNCHANGED <<shopify_users, shopify, tables, now, platform_integrations, sync_states,
                   queue, workers>>

\* part_024:634-665, one turn of the loop over the batches
ItemsBatch(c, failed) ==
    /\ calls[c].pc = "items"
    /\ calls[c].result.err = <<>>
    /\ calls[c].result.i < Len(calls[c].result.inventoryItemIDList)
    /\ LET r == calls[c].result
           response == GetInventoryItems(Batch(r.inventoryItemIDList, r.i), failed)
       IN calls' = [calls EXCEPT ![c].result =
             IF response.err # <<>>
             THEN [r EXCEPT !.requests = @ \o response.sent,
                            !.err = Wrap(response.err, "failed to get inventory items batch")]
             ELSE [r EXCEPT !.requests = @ \o response.sent,
                            !.InventoryItems = @ \o response.InventoryItems,
                            !.i = @ + batchSize]]
    /\ UNCHANGED <<shopify_users, shopify, tables, now, platform_integrations, sync_states,
                   queue, workers>>

\* the loop is over, or the error of a batch is returned
ItemsReturn(c) ==
    /\ calls[c].pc = "items"
    /\ \/ calls[c].result.err # <<>>
       \/ calls[c].result.i >= Len(calls[c].result.inventoryItemIDList)
    /\ calls' = [calls EXCEPT ![c] = IdleCall]
    /\ UNCHANGED <<shopify_users, shopify, tables, now, platform_integrations, sync_states,
                   queue, workers>>

\* one caller, one normalisation after the other
NextItems ==
    \/ /\ calls[1].pc = "idle"
       /\ \E variants \in VariantLists :
             \E cut \in 0..Len(variants) :
                ItemsStart(1, <<SubSeq(variants, 1, cut),
                                SubSeq(variants, cut + 1, Len(variants))>>)
    \/ \E failed \in BOOLEAN : ItemsBatch(1, failed)
    \/ ItemsReturn(1)

ItemsSpec == Init /\ [][NextItems]_vars

\* ------------------------------------------------------------------------
\* Storing and loading an EncryptedSecret
\* ------------------------------------------------------------------------
\* the bytes of "a", of ":" and the two bytes of a non-ASCII letter
PlainBytes == {97, 58, 195, 169}
Plaintexts == UNION {[1..n -> PlainBytes] : n \in 0..MaxPlainLen}
\* what rand.Reader may give for the nonce
Nonces == {<<n>> : n \in 0..(NumNonces - 1)}

\* the secret is written to the access_token column: the driver calls Value
StoreSecret(nonce) ==
    /\ shopify_users.pc = "new"
    /\ LET v == Value(shopify_users.secret, nonce)
       IN shopify_users' = [shopify_users EXCEPT !.pc = "stored",
                                                 !.access_token = v.value,
                                                 !.err = v.err]
    /\ UNCHANGED <<shopify, tables, now, platform_integrations, sync_states, queue, calls,
                   workers>>

\* the column is read back: the driver calls Scan
LoadSecret ==
    /\ shopify_users.pc = "stored"
    /\ shopify_users.err = <<>>
    /\ LET v == Scan(shopify_users.access_token)
       IN shopify_users' = [shopify_users EXCEPT !.pc = "scanned",
                                                 !.scanned = v.value,
                                                 !.err = v.err]
    /\ UNCHANGED <<shopify, tables, now, platform_integrations, sync_states, queue, calls,
                   workers>>

\* what the access_token column may hold besides the envelopes Value writes:
\* a version or none, a separator or none, and a text that is empty, an
\* encrypted secret, not base64, or base64 of bytes nobody sealed
Envelopes ==
    {version \o separator \o text :
        version \in {<<>>, EncryptionVersion, <<"v", "2">>, <<"v">>},
        separator \in {<<>>, <<":">>},
        text \in {<<>>, encrypt(<<97>>, <<0>>).value, <<"A">>,
                  EncodeToString(<<1, 2, 3>>)}}

\* the column was written by something else than Value (an earlier
\* release, a migration, an operator)
WriteColumn(envelope) ==
    /\ shopify_users.pc = "new"
    /\ shopify_users' = [shopify_users EXCEPT !.pc = "written",
                                              !.access_token = envelope]
    /\ UNCHANGED <<shopify, tables, now, platform_integrations, sync_states, queue, calls,
                   workers>>

\* such a column is read: the driver calls Scan
ReadColumn ==
    /\ shopify_users.pc = "written"
    /\ LET v == Scan(shopify_users.access_token)
       IN shopify_users' = [shopify_users EXCEPT !.pc = "read",
                                                 !.scanned = v.value,
                                                 !.err = v.err]
    /\ UNCHANGED <<shopify, tables, now, platform_integrations, sync_states, queue, calls,
                   workers>>

\* any secret is held
CryptoInit ==
    /\ now = 0
    /\ platform_integrations = {}
    /\ sync_states = {}
    /\ queue = EmptyBag
    /\ calls = [c \in Callers |-> IdleCall]
    /\ workers = [w \in Workers |-> IdleWorker]
    /\ shopify = [s \in Shops |-> EmptyCatalogue]
    /\ locations = {}
    /\ products = {}
    /\ product_variants = {}
    /\ inventory_items = {}
    /\ shopify_users \in {[NoSecret EXCEPT !.secret = p] : p \in Plaintexts}

NextCrypto ==
    \/ \E nonce \in Nonces : StoreSecret(nonce)
    \/ LoadSecret
    \/ \E envelope \in Envelopes : WriteColumn(envelope)
    \/ ReadColumn

CryptoSpec == CryptoInit /\ [][NextCrypto]_vars

\* ------------------------------------------------------------------------
\* Claims
\* ------------------------------------------------------------------------
\* a non-forced call that has passed the gate and has not enqueued yet
PassedGate(c) == calls[c].pc \in {"write", "enqueue"} /\ ~calls[c].Force

\* the runs of integration i that exist or are about to: waiting tasks,
\* handlers executing, and calls that committed in_progress and are about
\* to enqueue
PendingRuns(i) ==
    QueuedCount(i) + Cardinality(Running(i))
      + Cardinality({c \in Callers : calls[c].pc = "enqueue" /\ calls[c].ShopDomain = i})

\* C1: two concurrent non-forced TriggerSync calls for one integration with
\* no sync in flight never both pass the dedup gate (so exactly one of them
\* enqueues and the other returns in_progress).
C1_DedupGate ==
    \A c1, c2 \in Callers :
        (/\ c1 # c2
         /\ calls[c1].ShopDomain = calls[c2].ShopDomain
         /\ Queued(calls[c1].ShopDomain) = {}
         /\ Running(calls[c1].ShopDomain) = {})
        => ~(PassedGate(c1) /\ PassedGate(c2))

\* C2: when the handler returns after a fetch-phase or write-phase error,
\* the committed full_sync row of the integration is failed and its
\* error_message is the wrapped error (with the upstream status).
C2_FailedRecorded ==
    [][\A w \in Workers : \A kind \in {"fetch", "write"} :
          PipelineFail(w, kind) =>
             \E r \in SyncStateRows(sync_states', workers[w].IntegrationID,
                                    EntityTypeFullSync) :
                /\ r.sync_status = SyncStatusFailed
                /\ r.error_message.Valid
                /\ r.error_message.String =
                      IF kind = "fetch"
                      THEN Wrap(FetchError, "failed to fetch data from API")
                      ELSE Wrap(WriteError, "failed to batch sync data")]_vars

\* C3: an integration whose full_sync status is in_progress has exactly one
\* run: a waiting task, an executing handler, or the enqueue that the call
\* which wrote in_progress is about to make.
C3_ExactlyOneRun ==
    \A i \in Shops :
        FullSyncStatus(i) = SyncStatusInProgress => PendingRuns(i) = 1

\* C4: no two handlers execute the pipeline of the same integration at the
\* same time.
C4_NoConcurrentRuns ==
    \A i \in Shops : Cardinality(Running(i)) <= 1

\* C5: every TriggerSync that returned in_progress is eventually followed
\* by the integration's full_sync state being completed or failed.
C5_EventuallyTerminal ==
    \A c \in Callers : \A s \in Shops :
        (/\ calls[c].pc = "done"
         /\ calls[c].ShopDomain = s
         /\ calls[c].result.Status = SyncStatusInProgress)
        ~> (FullSyncStatus(s) \in {SyncStatusCompleted, SyncStatusFailed})

\* full_sync of i is in_progress and nothing is left that would run it
Blocked(i) ==
    /\ FullSyncStatus(i) = SyncStatusInProgress
    /\ PendingRuns(i) = 0
    /\ \A c \in Callers : calls[c].ShopDomain = i => calls[c].pc # "write"

InCooldown(i, t) ==
    \E r \in FullSync(i) : /\ r.sync_status = SyncStatusCompleted
                           /\ r.last_synced_at.Valid
                           /\ t - r.last_synced_at.Time < CooldownMinutes

EnqueueFailed(c) ==
    /\ calls[c].pc = "enqueue"
    /\ calls'[c].pc = "done"
    /\ calls'[c].result.err # <<>>

\* message e occurs in message msg
Contains(msg, e) ==
    \E k \in 0..(Len(msg) - Len(e)) : SubSeq(msg, k + 1, k + Len(e)) = e

ValidationFailed(c) ==
    /\ calls[c].pc = "idle"
    /\ calls'[c].pc = "done"
    /\ calls'[c].result.err \in {ValidationError(valid) : valid \in Validities \ {"ok"}}

\* C11: a TriggerSync that fails validation (user, shop or credential
\* missing, or an empty token) returns its error at once and mutates
\* nothing: no integration, no sync-state row, no task; all that is left
\* for the call is to hand the error to its caller.
C11_ValidationFrame ==
    [][\A c \in Callers :
          /\ \A s \in Shops, force \in BOOLEAN, valid \in Validities \ {"ok"} :
                TriggerStart(c, s, force, valid) => ValidationFailed(c)
          /\ ValidationFailed(c) =>
                /\ calls'[c].result.Status = ""
                /\ UNCHANGED <<platform_integrations, sync_states, queue, workers>>
          /\ (/\ calls[c].pc = "done" /\ calls[c].result.Status = ""
              /\ calls[c].result.err # <<>> /\ calls'[c] # calls[c])
             => /\ calls'[c] = IdleCall
                /\ UNCHANGED <<platform_integrations, sync_states, queue, workers>>]_vars

\* a call for a shop that was never synced has returned the empty-token
\* error, and the shop still has no integration, no state row and no task
C11_Witness ==
    \E c \in Callers :
        /\ calls[c].pc = "done"
        /\ calls[c].result.err = ValidationError("empty_token")
        /\ calls[c].ShopDomain \notin platform_integrations
        /\ FullSync(calls[c].ShopDomain) = {}
        /\ PendingRuns(calls[c].ShopDomain) = 0

\* ------------------------------------------------------------------------
\* The write phase and its transaction (DataSpec)
\* ------------------------------------------------------------------------
\* rows of integration i: products carry integration_id, variants belong to
\* the integration of the run that generated their id
RowsOf(i) ==
    [locations |-> {r \in locations : r.integration_id = i},
     products |-> {r \in products : r.integration_id = i},
     product_variants |-> {r \in product_variants : Xid(r.id)[1] = i},
     inventory_items |-> {r \in inventory_items : r.integration_id = i}]

\* C12: a step in which a run fails in its write phase, at whichever upsert,
\* leaves every entity table as it was: none of the rows the run had staged
\* is visible afterwards
C12_FailedWriteLeavesTables ==
    [][\A w \in Workers : PipelineFail(w, "write") => UNCHANGED tables]_vars

\* a run of a shop with a product has failed in its write phase and waits for
\* its retry, and no row of the shop is in the tables
C12_Witness ==
    \E t \in BagToSet(queue) :
        /\ t.retried >= 1
        /\ shopify[t.IntegrationID].Products # <<>>
        /\ RowsOf(t.IntegrationID) = EmptyTables

\* every product and variant of the catalogue of shop i is a row, the variant
\* under a product row of i
CatalogueVisible(i) ==
    \A k \in 1..Len(shopify[i].Products) :
        LET product == shopify[i].Products[k]
        IN /\ \E p \in products :
                 /\ p.integration_id = i
                 /\ p.handle = product.Handle
                 /\ p.external_id = FormatInt(product.ID)
                 /\ p.title = product.Title
           /\ \A j \in 1..Len(product.Variants) :
                 \E v \in product_variants :
                    /\ v.external_id = FormatInt(product.Variants[j].ID)
                    /\ v.sku = TextOrNull(product.Variants[j].SKU)
                    /\ \E p \in products : p.id = v.product_id /\ p.integration_id = i

\* C13: the step that makes full_sync of an integration completed is the end
\* of a run of that integration, after it the integration has exactly one
\* full_sync row, completed with last_synced_at set and no error message,
\* and the rows of the run are in the tables in that same step
C13_CompletedWithRows ==
    [][\A i \in Shops :
          (FullSync(i)' # FullSync(i) /\ FullSyncStatus(i)' = SyncStatusCompleted)
          => /\ \E w \in Workers : /\ workers[w].pc = "running"
                                   /\ workers[w].IntegrationID = i
                                   /\ workers'[w].pc = "idle"
             /\ FullSync(i)' = {SyncStateRow(i, EntityTypeFullSync, SyncStatusCompleted,
                                             Timestamp(now), NullText)}
             /\ CatalogueVisible(i)']_vars

\* a shop with a product is completed and its catalogue is in the tables
C13_Witness ==
    \E i \in Shops :
        /\ FullSyncStatus(i) = SyncStatusCompleted
        /\ shopify[i].Products # <<>>
        /\ RowsOf(i).products # {}
        /\ CatalogueVisible(i)

\* SyncInventory for integration i on tables db: normalise the catalogue,
\* write it, commit or roll back
RunPipeline(db, i) ==
    LET written == batchSyncAllData(db, normalizeShopifyData(i, shopify[i], db), 0)
    IN [db |-> WithTxEntities(db, written.db, written.err), err |-> written.err]

\* the root cause of a wrapped error
RECURSIVE Cause(_)
Cause(err) == IF Len(err) <= 1 THEN err ELSE Cause(Tail(err))

\* C16: from any tables the program reaches, two runs of the pipeline of an
\* integration on its unchanged catalogue leave the rows that one run
\* leaves, ids included; the second run succeeds when the first did and
\* never meets a duplicate key
C16_SecondRunChangesNothing ==
    \A i \in Shops :
        LET once == RunPipeline(Committed, i)
            twice == RunPipeline(once.db, i)
        IN /\ twice.db = once.db
           /\ once.err = <<>> => twice.err = <<>>
           /\ Cause(twice.err) # DuplicateKey

\* a shop already has rows, a first run on its catalogue succeeds and
\* changes the tables
C16_Witness ==
    \E i \in Shops :
        /\ RowsOf(i).products # {}
        /\ RunPipeline(Committed, i).err = <<>>
        /\ RunPipeline(Committed, i).db # Committed

\* C17: the product_id of every product_variant row is the id of a product
\* row; the pipeline writes no inventory level and no order line item
C17_VariantsHaveProducts ==
    \A v \in product_variants : \E p \in products : p.id = v.product_id

\* a completed shop with two variants under its product
C17_Witness ==
    \E i \in Shops :
        /\ FullSyncStatus(i) = SyncStatusCompleted
        /\ \E p \in products :
              /\ p.integration_id = i
              /\ Cardinality({v \in product_variants : v.product_id = p.id}) = 2

\* ------------------------------------------------------------------------
\* last_synced_at of completed states (OverlapSpec)
\* ------------------------------------------------------------------------
\* last_synced_at of the full_sync row of integration i
LastSyncedAt(i) == (CHOOSE r \in FullSync(i) : TRUE).last_synced_at

\* C14: a completed full_sync row has last_synced_at set, and a completed
\* state that follows a completed state of the same integration does not
\* carry an earlier last_synced_at
C14_LastSyncedNeverDecreases ==
    [][\A i \in Shops :
          /\ FullSyncStatus(i)' = SyncStatusCompleted => LastSyncedAt(i)'.Valid
          /\ (FullSyncStatus(i) = SyncStatusCompleted /\ FullSyncStatus(i)' = SyncStatusCompleted)
             => LastSyncedAt(i)'.Time >= LastSyncedAt(i).Time]_vars

\* ------------------------------------------------------------------------
\* The state diagram of full_sync
\* ------------------------------------------------------------------------
\* the edges of the diagram: (status before, status after)
StatusEdges ==
    {<<"no_row", SyncStatusInProgress>>,
     <<SyncStatusInProgress, SyncStatusCompleted>>,
     <<SyncStatusInProgress, SyncStatusFailed>>,
     <<SyncStatusFailed, SyncStatusInProgress>>,
     <<SyncStatusCompleted, SyncStatusInProgress>>}

\* C15: every step that changes the full_sync row of an integration takes
\* its status along an edge of the diagram, and pending is never written
C15_StatusFollowsDiagram ==
    [][\A i \in Shops :
          FullSync(i)' # FullSync(i)
          => <<FullSyncStatus(i), FullSyncStatus(i)'>> \in StatusEdges]_vars

\* ------------------------------------------------------------------------
\* GetSyncStatus (StatusSpec)
\* ------------------------------------------------------------------------
\* C18: for a shop that exists, GetSyncStatus answers never_synced when the
\* shop has no integration or the integration no sync_states row,
\* partial_sync_only when the integration has rows but none of full_sync,
\* and otherwise status, last_synced_at and error_message of the full_sync
\* row; the call changes nothing but the caller's own answer
C18_StatusRead ==
    [][\A c \in Callers :
          (calls[c].pc = "idle" /\ calls'[c].pc = "status" /\ calls'[c].result.err = <<>>)
          => LET i == calls'[c].ShopDomain
                 result == calls'[c].result.result
                 rows == {r \in sync_states : r.integration_id = i}
             IN /\ UNCHANGED <<platform_integrations, sync_states, queue, workers, tables, now>>
                /\ (i \notin platform_integrations \/ rows = {})
                      => result.Status = SyncStatusNeverSynced
                /\ (i \in platform_integrations /\ rows # {} /\ FullSync(i) = {})
                      => result.Status = SyncStatusPartialSyncOnly
                /\ (i \in platform_integrations /\ FullSync(i) # {})
                      => \E r \in FullSync(i) :
                            /\ result.Status = r.sync_status
                            /\ result.LastSynced = r.last_synced_at
                            /\ Text(result.Error) = r.error_message
                                \/ (result.Error = <<>> /\ ~r.error_message.Valid)]_vars

\* a caller holds partial_sync_only for an integration that has a row of
\* another entity and none of full_sync, another caller the failed
\* full_sync of an integration with its error message
C18_Witness ==
    /\ \E c \in Callers :
          /\ calls[c].pc = "status"
          /\ calls[c].result.err = <<>>
          /\ calls[c].result.result.Status = SyncStatusPartialSyncOnly
          /\ FullSync(calls[c].ShopDomain) = {}
    /\ \E c \in Callers :
          /\ calls[c].pc = "status"
          /\ calls[c].result.err = <<>>
          /\ calls[c].result.result.Status = SyncStatusFailed
          /\ calls[c].result.result.Error # <<>>

\* ------------------------------------------------------------------------
\* Log records
\* ------------------------------------------------------------------------
\* text sub occurs in text str
Occurs(sub, str) ==
    \E k \in 0..(Len(str) - Len(sub)) : SubSeq(str, k + 1, k + Len(sub)) = sub

\* C19: the record logged for a task never holds the access token of a shop
C19_TokenNeverLogged ==
    \A w \in Workers, s \in Shops : ~Occurs(AccessTokenOf(s), workers[w].logged)

\* ------------------------------------------------------------------------
\* EncryptedSecret round trip (CryptoSpec)
\* ------------------------------------------------------------------------
\* C20: the secret scanned from the column is the secret that was stored,
\* without error, whatever the secret (empty, with bytes outside ASCII) and
\* whatever the nonce
C20_RoundTrip ==
    shopify_users.pc = "scanned"
    => /\ shopify_users.err = <<>>
       /\ shopify_users.scanned = shopify_users.secret

\* a secret with bytes outside ASCII was stored under a version and came back
C20_Witness ==
    /\ shopify_users.pc = "scanned"
    /\ \E k \in 1..Len(shopify_users.secret) : shopify_users.secret[k] > 127
    /\ SubSeq(shopify_users.access_token, 1, 3) = EncryptionVersion \o <<":">>
    /\ shopify_users.scanned = shopify_users.secret

\* the text of envelope e before its first ":", the whole of it when it has
\* none
VersionPrefix(e) == Cut(e, ":").before

\* C21 as stated: reading a non-empty column whose version prefix is not v1
\* gives an error and no plaintext
C21_OnlyV1Decrypts ==
    (/\ shopify_users.pc = "read"
     /\ shopify_users.access_token # <<>>
     /\ VersionPrefix(shopify_users.access_token) # EncryptionVersion)
    => shopify_users.err # <<>> /\ shopify_users.scanned = <<>>

\* C21 amended: reading a non-empty column whose version prefix is neither
\* v1 nor empty gives an error and no plaintext
C21_UnknownVersionRejected ==
    (/\ shopify_users.pc = "read"
     /\ shopify_users.access_token # <<>>
     /\ VersionPrefix(shopify_users.access_token) \notin {EncryptionVersion, <<>>})
    => shopify_users.err # <<>> /\ shopify_users.scanned = <<>>

\* a column holding an encrypted secret under version v2 was read and
\* rejected as unsupported
C21_Witness ==
    /\ shopify_users.pc = "read"
    /\ shopify_users.access_token = <<"v", "2", ":">> \o encrypt(<<97>>, <<0>>).value
    /\ shopify_users.err = <<"unsupported encryption version: ", "v", "2">>

\* C22: the empty secret is stored as the empty column and no other secret
\* is, the empty column is read as the empty secret, and no other column is
\* read as the empty secret without an error
C22_EmptyIffEmpty ==
    /\ shopify_users.pc = "stored"
       => /\ shopify_users.err = <<>>
          /\ (shopify_users.access_token = <<>>) <=> (shopify_users.secret = <<>>)
    /\ (shopify_users.pc = "read" /\ shopify_users.err = <<>>)
       => ((shopify_users.access_token = <<>>) <=> (shopify_users.scanned = <<>>))

\* ------------------------------------------------------------------------
\* Typed ids (IdSpec)
\* ------------------------------------------------------------------------
\* C23: building an id of type T from a string or reading it from a column
\* succeeds exactly when a value is there and starts with T's prefix, and a
\* generated id of type T starts with T's prefix
C23_PrefixValidated ==
    \A c \in Callers :
        calls[c].pc = "id"
        => LET r == calls[c].result
           IN IF r.op = "NewGeneration"
              THEN HasPrefix(r.out.id, Prefix(r.T))
              ELSE (r.out.err = <<>>)
                   <=> (r.src.kind \in {"string", "bytes"}
                        /\ HasPrefix(r.src.value, Prefix(r.T)))

\* ------------------------------------------------------------------------
\* Domain normalisation (DomainSpec)
\* ------------------------------------------------------------------------
\* text without the "/" it ends with, however many
RECURSIVE WithoutTrailingSlashes(_)
WithoutTrailingSlashes(str) ==
    IF str # <<>> /\ str[Len(str)] = "/"
    THEN WithoutTrailingSlashes(SubSeq(str, 1, Len(str) - 1))
    ELSE str

\* C24: a domain that is not blank is normalised to itself trimmed, without
\* scheme, without any trailing slash and ending in .myshopify.com, added
\* when missing; a domain that normalises to demo.myshopify.com resolves to
\* the shop
C24_DomainNormalized ==
    \A c \in Callers :
        (calls[c].pc = "domain" /\ TrimSpace(calls[c].result.domain) # <<>>)
        => LET bare == WithoutTrailingSlashes(
                           TrimPrefix(TrimPrefix(TrimSpace(calls[c].result.domain),
                                                 <<"https://">>), <<"http://">>))
               expected == IF HasSuffix(bare, <<".myshopify.com">>)
                           THEN bare ELSE bare \o <<".myshopify.com">>
           IN /\ calls[c].result.normalizedShopDomain = expected
              /\ expected = <<"demo", ".myshopify.com">> => calls[c].ShopDomain = 1

\* ------------------------------------------------------------------------
\* Variants of products that exist (DataSpec)
\* ------------------------------------------------------------------------
\* C25: a run of the pipeline of an integration on tables that already hold
\* a product of its catalogue (same integration and handle) meets no
\* foreign-key violation, and when it succeeds every variant of that
\* product in the catalogue is a row under the existing product row
C25_VariantsOfExistingProduct ==
    \A i \in Shops :
        LET run == RunPipeline(Committed, i)
        IN \A k \in 1..Len(shopify[i].Products) :
              LET product == shopify[i].Products[k]
                  existing == {p \in products : /\ p.integration_id = i
                                                /\ p.handle = product.Handle}
              IN existing # {}
                 => /\ Cause(run.err) # ForeignKeyViolation
                    /\ run.err = <<>>
                       => \A j \in 1..Len(product.Variants) :
                             \E v \in run.db.product_variants :
                                /\ v.external_id = FormatInt(product.Variants[j].ID)
                                /\ v.product_id \in {p.id : p \in existing}

\* ------------------------------------------------------------------------
\* The handler of a delivered task (ServiceSpec)
\* ------------------------------------------------------------------------
\* C26: the step in which a worker takes a task of an integration whose
\* full_sync state is in_progress starts the sync of that integration: the
\* worker is syncing afterwards
C26_DeliveredTaskRuns ==
    [][\A w \in Workers : \A t \in BagToSet(queue) :
          (ServiceDeliver(w, t) /\ FullSyncStatus(t.IntegrationID) = SyncStatusInProgress)
          => /\ workers'[w].pc = "syncing"
             /\ workers'[w].IntegrationID = t.IntegrationID]_vars

\* ------------------------------------------------------------------------
\* The state during a run (Spec)
\* ------------------------------------------------------------------------
\* C27: while a worker runs the pipeline of an integration, the committed
\* full_sync state of that integration is in_progress
C27_RunningIsInProgress ==
    \A w \in Workers :
        workers[w].pc = "running"
        => FullSyncStatus(workers[w].IntegrationID) = SyncStatusInProgress

\* ------------------------------------------------------------------------
\* The gate on a failed read (GateSpec)
\* ------------------------------------------------------------------------
\* C28: a non-forced trigger whose read of the full_sync state fails for a
\* reason other than a missing row ends there: it returns, and goes on
\* neither to the in_progress write nor to the enqueue
C28_ReadFailureStopsTrigger ==
    [][\A c \in Callers :
          TriggerGateReadFail(c)
          => /\ calls'[c].pc = "done"
             /\ ~calls[c].Force]_vars

\* ------------------------------------------------------------------------
\* First triggers of a shop (Spec)
\* ------------------------------------------------------------------------
\* C29: no call of TriggerShopifySync ends with the error of an
\* integration that another call has created first: every call for a shop
\* goes on with the one integration of the shop
C29_ConcurrentCreation ==
    \A c \in Callers :
        calls[c].pc = "done"
        => /\ Cause(calls[c].result.err) # DuplicateKey
           /\ calls[c].result.err = <<>> => calls[c].ShopDomain \in platform_integrations

\* ------------------------------------------------------------------------
\* last_synced_at and the status (Spec)
\* ------------------------------------------------------------------------
\* C30: last_synced_at of every full_sync row is set exactly when the
\* status of the row is completed
C30_LastSyncedIffCompleted ==
    \A r \in sync_states :
        r.entity_type = EntityTypeFullSync
        => (r.last_synced_at.Valid <=> r.sync_status = SyncStatusCompleted)

\* a call has been turned away because the shop was completed, and with
\* its response not yet taken the row of the shop is in_progress or failed
\* again, without last_synced_at
C30_Witness ==
    \E c \in Callers :
        /\ calls[c].pc = "done"
        /\ calls[c].shouldSkip
        /\ calls[c].result.Status = SyncStatusCompleted
        /\ FullSyncStatus(calls[c].ShopDomain) \in {SyncStatusInProgress, SyncStatusFailed}
        /\ ~LastSyncedAt(calls[c].ShopDomain).Valid

\* ------------------------------------------------------------------------
\* Pagination (FetchSpec)
\* ------------------------------------------------------------------------
\* C31: a loop over the pages of an entity class sends no request twice,
\* and when it has ended without error it holds exactly the records of the
\* class, each once and in order
C31_PaginationExhausted ==
    \A c \in Callers :
        (calls[c].pc \in {"fetch", "fetched"} /\ calls[c].result.kind # "GetShop")
        => LET f == calls[c].result
           IN /\ \A i, j \in 1..Len(f.requests) : f.requests[i] = f.requests[j] => i = j
              /\ (calls[c].pc = "fetched" /\ f.err = <<>>)
                 => \A e \in Entities : f.records[e] = [k \in 1..f.total[e] |-> k]

\* ------------------------------------------------------------------------
\* The order of the writes of a run (DataSpec)
\* ------------------------------------------------------------------------
\* the place of a table in the order locations, products, variants,
\* inventory items
TableRank(table) ==
    CASE table = "locations" -> 1
      [] table = "products" -> 2
      [] table = "product_variants" -> 3
      [] table = "inventory_items" -> 4

\* C32: the upserts of a run are issued locations first, then products,
\* then variants, then inventory items, and a run whose k-th upsert fails
\* has staged the upserts before it and none after it
C32_WriteOrder ==
    \A w \in Workers :
        workers[w].pc = "running"
        => LET st == Statements(SyncData(w))
           IN /\ \A a, b \in 1..Len(st) :
                    a < b => TableRank(st[a].table) <= TableRank(st[b].table)
              /\ \A k \in 1..Len(st) :
                    LET stopped == batchSyncAllData(Committed, SyncData(w), k)
                        before == batchSyncFrom(Committed, SubSeq(st, 1, k - 1), 1, 0)
                    IN /\ stopped.err # <<>>
                       /\ before.err = <<>> => stopped.db = before.db

\* a run with upserts for three tables, the last of which fails after the
\* first two have been staged
C32_Witness ==
    \E w \in Workers :
        /\ workers[w].pc = "running"
        /\ Cardinality({Statements(SyncData(w))[k].table :
                            k \in 1..Len(Statements(SyncData(w)))}) = 3
        /\ batchSyncAllData(Committed, SyncData(w), 3).err # <<>>
        /\ batchSyncAllData(Committed, SyncData(w), 3).db.product_variants
              # Committed.product_variants

\* ------------------------------------------------------------------------
\* The conflict targets of the upserts (DataSpec)
\* ------------------------------------------------------------------------
\* C33: no upsert of a run of the pipeline fails on its conflict target or
\* on a duplicate key: every record is inserted or updates the row that has
\* its key
C33_UpsertsMatchConstraints ==
    \A i \in Shops :
        /\ Cause(RunPipeline(Committed, i).err) # NoMatchingConstraint
        /\ Cause(RunPipeline(Committed, i).err) # DuplicateKey

\* ------------------------------------------------------------------------
\* Panics and retries (Spec)
\* ------------------------------------------------------------------------
\* C34: a run that panics ends with the task neither retried nor recorded
\* as completed: the queue is as it was and no full_sync state changes; a
\* run that ends with an ordinary error before its retries are used up
\* puts the task back in the queue for another attempt
C34_PanicNotRetried ==
    [][\A w \in Workers :
          /\ PipelinePanic(w) => (queue' = queue /\ sync_states' = sync_states)
          /\ \A kind \in FailKinds :
                (PipelineFail(w, kind) /\ workers[w].retried < MaxRetry)
                => BagIn(Task(workers[w].IntegrationID, workers[w].retried + 1),
                         queue')]_vars

\* the task of a shop has ended for good at its first attempt: the state
\* is still in_progress at the time of the trigger, and no call, task or
\* run of the shop is left
C34_Witness ==
    \E i \in Shops :
        /\ now = 0
        /\ FullSyncStatus(i) = SyncStatusInProgress
        /\ Queued(i) = {}
        /\ Running(i) = {}
        /\ \A c \in Callers : calls[c].pc = "idle"
        /\ queue = EmptyBag

\* ------------------------------------------------------------------------
\* The rate limiter of the client (FetchSpec)
\* ------------------------------------------------------------------------
\* C35: every request a fetcher has sent, GetShop included, was sent with a
\* token of the rate limiter
C35_EveryRequestLimited ==
    \A c \in Callers :
        calls[c].pc \in {"fetch", "fetched"}
        => \A k \in 1..Len(calls[c].result.requests) : calls[c].result.requests[k].token

\* ------------------------------------------------------------------------
\* The statuses written (EnumSpec)
\* ------------------------------------------------------------------------
\* C36: every product status, financial status and fulfillment status of a
\* row normalizeShopifyData builds lies in the enum of its column, a value
\* of the enum is kept, and any other value (nil too) becomes draft, pending
\* and null respectively
C36_StatusesInClosedSets ==
    \A c \in Callers :
        calls[c].pc = "statuses"
        => LET r == calls[c].result
           IN /\ \A k \in 1..Len(r.products) :
                    LET in == r.products[k].Status
                        out == r.syncData.Products[k].Status
                    IN /\ out \in product_status
                       /\ out = IF in \in product_status THEN in ELSE "draft"
              /\ \A k \in 1..Len(r.orders) :
                    LET fin == r.orders[k].FinancialStatus
                        ful == r.orders[k].FulfillmentStatus
                        o == r.syncData.Orders[k]
                    IN /\ o.FinancialStatus \in financial_status
                       /\ o.FinancialStatus = IF fin \in financial_status THEN fin
                                              ELSE "pending"
                       /\ o.FulfillmentStatus \in fulfillment_status
                       /\ o.FulfillmentStatus
                            = IF ful # <<>> /\ ful[1] \in fulfillment_status THEN ful[1]
                              ELSE "null"

\* a product and an order whose three statuses are all outside their sets
C36_Witness ==
    \E c \in Callers :
        /\ calls[c].pc = "statuses"
        /\ calls[c].result.products[1].Status = "unlisted"
        /\ calls[c].result.orders[1].FinancialStatus = "unlisted"
        /\ calls[c].result.orders[1].FulfillmentStatus = <<"unfulfilled">>
        /\ calls[c].result.syncData.Products[1].Status = "draft"
        /\ calls[c].result.syncData.Orders[1].FinancialStatus = "pending"
        /\ calls[c].result.syncData.Orders[1].FulfillmentStatus = "null"

\* ------------------------------------------------------------------------
\* Normalising twice (DomainSpec)
\* ------------------------------------------------------------------------
\* C37: the normalised domain of every input is a fixed point of
\* NormalizeDomain: normalising it again gives the same text
C37_NormalizeIdempotent ==
    \A c \in Callers :
        calls[c].pc = "domain"
        => NormalizeDomain(calls[c].result.normalizedShopDomain)
              = calls[c].result.normalizedShopDomain

\* ------------------------------------------------------------------------
\* The transaction helper (TxSpec)
\* ------------------------------------------------------------------------
\* the callback of the call recorded in r was run
FnRan(r) == \E k \in 1..Len(r.out.trace) : r.out.trace[k] = "fn"
\* the call recorded in r called the method of the transaction
TxCalled(r, method) == \E k \in 1..Len(r.out.trace) : r.out.trace[k] = method

\* C38: a call of WithTx leaves its transaction committed exactly when the
\* callback returned nil; when the callback returned an error or panicked
\* the table is as before, the error returned is the error of the callback,
\* and the panic is raised again after Rollback
C38_CommittedIffNil ==
    \A c \in Callers :
        calls[c].pc = "tx"
        => LET r == calls[c].result
           IN /\ r.out.committed <=> (FnRan(r) /\ r.fn.err = <<>> /\ r.fn.panic = <<>>)
              /\ (FnRan(r) /\ r.fn.err # <<>>)
                    => r.out.err = r.fn.err /\ sync_states = r.before
              /\ (FnRan(r) /\ r.fn.panic # <<>>)
                    => /\ r.out.panic = r.fn.panic
                       /\ TxCalled(r, "Rollback")
                       /\ sync_states = r.before

\* C38 (amended): WithTx calls Commit exactly when the callback returned
\* nil, and the transaction is committed exactly when that Commit succeeds;
\* in every other case the table is as before.  An error of the callback is
\* returned, wrapped when Rollback fails too; a failed Commit is returned as
\* "failed to commit transaction"; a panic is raised again after Rollback.
C38_CommitCalledIffNil ==
    \A c \in Callers :
        calls[c].pc = "tx"
        => LET r == calls[c].result
               nil == FnRan(r) /\ r.fn.err = <<>> /\ r.fn.panic = <<>>
           IN /\ TxCalled(r, "Commit") <=> nil
              /\ TxCalled(r, "Rollback") <=> (FnRan(r) /\ ~nil)
              /\ r.out.committed <=> (nil /\ r.commitErr = <<>>)
              /\ sync_states = IF r.out.committed THEN ApplyTx(r.before, r.tx) ELSE r.before
              /\ (nil /\ r.commitErr # <<>>)
                    => r.out.err = Wrap(r.commitErr, "failed to commit transaction")
              /\ (nil /\ r.commitErr = <<>>) => r.out.err = <<>> /\ r.out.panic = <<>>
              /\ (FnRan(r) /\ r.fn.err # <<>>)
                    => /\ Cause(r.out.err) = r.fn.err
                       /\ (r.rollbackErr = <<>> => r.out.err = r.fn.err)
                       /\ r.out.panic = <<>>
              /\ (FnRan(r) /\ r.fn.panic # <<>>) => r.out.panic = r.fn.panic

\* a callback that staged a write the table does not hold and returned nil,
\* and a Commit that failed: nothing is committed and the error is returned
C38_Witness ==
    \E c \in Callers :
        /\ calls[c].pc = "tx"
        /\ FnRan(calls[c].result)
        /\ calls[c].result.fn.err = <<>> /\ calls[c].result.fn.panic = <<>>
        /\ calls[c].result.commitErr # <<>>
        /\ ApplyTx(calls[c].result.before, calls[c].result.tx) # calls[c].result.before
        /\ calls[c].result.before # {}
        /\ sync_states = calls[c].result.before
        /\ calls[c].result.out.err # <<>>

\* ------------------------------------------------------------------------
\* The requests for inventory items (ItemsSpec)
\* ------------------------------------------------------------------------
\* the place of the first occurrence of x in sequence q
FirstIndex(q, x) == CHOOSE k \in 1..Len(q) : q[k] = x /\ \A j \in 1..(k - 1) : q[j] # x

\* C39: the requests sent for inventory items are batches of at least one
\* and at most batchSize ids; no id is requested twice, every requested id
\* is a non-zero id of a fetched variant, the ids are requested in the order
\* of their first occurrence among the variants without skipping one, and
\* when the loop has ended without an error every non-zero id of a variant
\* has been requested
C39_EachItemRequestedOnce ==
    \A c \in Callers :
        calls[c].pc = "items"
        => LET r == calls[c].result
               variantIDs == Flatten(r.products)
               referenced == {variantIDs[k] : k \in 1..Len(variantIDs)} \ {0}
               requested == Flatten(r.requests)
               Requested == {requested[k] : k \in 1..Len(requested)}
           IN /\ \A k \in 1..Len(r.requests) :
                    Len(r.requests[k]) >= 1 /\ Len(r.requests[k]) <= batchSize
              /\ \A j, k \in 1..Len(requested) : j # k => requested[j] # requested[k]
              /\ Requested \subseteq referenced
              /\ \A j, k \in 1..Len(requested) :
                    j < k => FirstIndex(variantIDs, requested[j])
                                < FirstIndex(variantIDs, requested[k])
              /\ \A x \in referenced, y \in Requested :
                    FirstIndex(variantIDs, x) < FirstIndex(variantIDs, y) => x \in Requested
              /\ (r.err = <<>> /\ r.i >= Len(r.inventoryItemIDList))
                    => Requested = referenced

\* the loop has ended after more than one batch, for variants of which two
\* share an inventory item
C39_Witness ==
    \E c \in Callers :
        /\ calls[c].pc = "items"
        /\ calls[c].result.err = <<>>
        /\ calls[c].result.i >= Len(calls[c].result.inventoryItemIDList)
        /\ Len(calls[c].result.requests) >= 2
        /\ LET variantIDs == Flatten(calls[c].result.products)
           IN \E j, k \in 1..Len(variantIDs) : j # k /\ variantIDs[j] = variantIDs[k]
                                                /\ variantIDs[j] # 0

====
